---------------------------- MODULE Spec2Model ----------------------------
(***************************************************************************)
(* A model of the McBopomofoWeb composition engine: the KeyHandler state   *)
(* machine (src/unnamed/part_000), the InputController that hosts it       *)
(* (src/unnamed/part_001), the input states (InputState.ts) and the        *)
(* language-model facade (WebLanguageModel.ts).                            *)
(*                                                                         *)
(* A string is the sequence of its UTF-16 code units, each a string of     *)
(* its own, so that length, substring, split and join are computed as      *)
(* String.length and String.prototype.substring count.  A unit outside     *)
(* printable ASCII is written {u<hex>}: "{uc9}" is U+00C9, and "{ud840}",  *)
(* "{udc00}" are the two units of U+20000.  Scores are integers in units   *)
(* of kEpsilon (0.000001), so -3000000 stands for -3.0.                     *)
(***************************************************************************)
EXTENDS Integers, Sequences, FiniteSets, TLC

VARIABLES
    keyHandler_,  \* the KeyHandler object: its private fields
    lm_,          \* the WebLanguageModel object: user phrases, converters
    state_,       \* InputController.state_
    candidateKeys_,  \* InputController.candidateKeys_
    candidateController_,     \* InputController.candidateController_
    useVerticalCandidates_,   \* InputController.useVerticalCandidates_
    call          \* history: what the last call was, emitted and returned

vars ==
    <<keyHandler_, lm_, state_, candidateKeys_, candidateController_,
      useVerticalCandidates_, call>>

-----------------------------------------------------------------------------
(* Bounds of the model. *)

\* Largest grid width a key may grow the grid to in specification Spec.
MaxWidth == 2

\* Largest number of contexts the override model has observed.
MaxObservations == 1

\* Largest grid width in specification SpecEvict.
MaxEvictWidth == 11

\* Largest grid width in specification SpecSelect.
MaxSelectWidth == 1

\* Largest grid width in specification SpecMark.
MaxMarkWidth == 7

\* Largest grid width at which Enter is pressed in specification SpecMark.
MaxPhraseWidth == 3

\* Largest grid width in specification SpecWalk.
MaxWalkWidth == 5

\* Largest grid width in specification SpecError.
MaxErrorWidth == 2

\* Largest grid width in specification SpecConsume.
MaxConsumeWidth == 1

\* Largest grid width in specification SpecRepick.
MaxRepickWidth == 3

\* Most selections the override model observes in specification SpecRepick.
MaxRepickObservations == 1

\* How far beyond its range the composing buffer size is set in SpecSize.
SizeMargin == 3

\* Largest grid width in specification SpecMode.
MaxModeWidth == 2

\* Longest composing buffer of the states entered in specification SpecEnter.
MaxBufferLen == 2

\* Largest grid width in specification SpecCommit.
MaxCommitWidth == 1

\* SpecPhrase: the user phrases stored, over all keys
MaxUserPhrases == 2

\* SpecPhrase: the calls of the change callback
MaxPhraseChanges == 3

\* SpecKeys: the characters taken from the head of a base string
MaxKeysLen == 16

\* SpecOrderKey: the length of a key given to maybeAbsoluteOrderKey
MaxKeyLen == 4

\* SpecAdd: the readings in the grid
MaxAddWidth == 2

\* SpecSpace: the readings in the grid
MaxSpaceWidth == 2

\* SpecPanel: the readings in the grid
MaxPanelWidth == 2

\* SpecCursor: the readings in the grid
MaxCursorWidth == 5

\* SpecList: the readings in the grid
MaxListWidth == 2

\* SpecOther: the readings in the grid
MaxOtherWidth == 2

\* SpecPick: the readings in the grid
MaxPickWidth == 3

\* SpecHead: the readings in the grid
MaxHeadWidth == 4

\* SpecCompose: the readings in the grid
MaxComposeWidth == 2

\* SpecTraditional: the readings in the grid
MaxTraditionalWidth == 2

\* SpecShift: the readings in the grid
MaxShiftWidth == 3

\* SpecTab: the readings in the grid, and the selections observed
MaxTabWidth == 2
MaxTabObservations == 1

-----------------------------------------------------------------------------
(* Strings. *)

Min(a, b) == IF a < b THEN a ELSE b

RECURSIVE Join(_, _)
\* _.join(list, sep) / Array.prototype.join
Join(list, sep) ==
    IF Len(list) = 0 THEN <<>>
    ELSE IF Len(list) = 1 THEN list[1]
    ELSE list[1] \o sep \o Join(Tail(list), sep)

\* String.prototype.substring(from, to), 0-based, to exclusive
Substring(s, from, to) ==
    LET f == Min(IF from < 0 THEN 0 ELSE from, Len(s))
        t == Min(IF to < 0 THEN 0 ELSE to, Len(s))
        lo == Min(f, t)
        hi == IF f < t THEN t ELSE f
    IN  SubSeq(s, lo + 1, hi)

\* String.prototype.startsWith
StartsWith(s, p) == Len(s) >= Len(p) /\ SubSeq(s, 1, Len(p)) = p

\* the first index from..Len(s) at which pat occurs in s, 0 when none
IndexFrom(s, pat, from) ==
    LET found == {i \in from..(Len(s) - Len(pat) + 1) :
                     SubSeq(s, i, i + Len(pat) - 1) = pat}
    IN  IF found = {} THEN 0
        ELSE CHOOSE i \in found : \A j \in found : i <= j

RECURSIVE ReplaceAllFrom(_, _, _, _)
ReplaceAllFrom(s, pat, rep, from) ==
    LET at == IndexFrom(s, pat, from)
    IN  IF at = 0 THEN SubSeq(s, from, Len(s))
        ELSE SubSeq(s, from, at - 1) \o rep
             \o ReplaceAllFrom(s, pat, rep, at + Len(pat))

\* String.prototype.replace(/pat/g, rep): leftmost, non-overlapping
ReplaceAll(s, pat, rep) == ReplaceAllFrom(s, pat, rep, 1)

RECURSIVE SplitFrom(_, _, _)
SplitFrom(s, sep, from) ==
    LET at == IndexFrom(s, <<sep>>, from)
    IN  IF at = 0 THEN <<SubSeq(s, from, Len(s))>>
        ELSE <<SubSeq(s, from, at - 1)>> \o SplitFrom(s, sep, at + 1)

\* String.prototype.split(sep) for a one-character separator
Split(s, sep) == SplitFrom(s, sep, 1)

\* Array.prototype.includes
Includes(list, x) == \E i \in 1..Len(list) : list[i] = x

\* the element of a set of one element; a value computed by way of such a
\* set is computed once, before it is used
The(S) == CHOOSE x \in S : TRUE

\* the string of a sequence of units, as one TLA+ string
RECURSIVE StringOf(_)
StringOf(s) ==
    IF Len(s) = 0 THEN ""
    ELSE The({s[1] \o StringOf(rest) : rest \in {Tail(s)}})

HexDigits ==
    {"0", "1", "2", "3", "4", "5", "6", "7", "8", "9", "a", "b", "c", "d",
     "e", "f"}

\* the units U+D800..U+DBFF and U+DC00..U+DFFF of a surrogate pair
HighSurrogates ==
    {"{ud" \o h \o x \o y \o "}" :
         h \in {"8", "9", "a", "b"}, x \in HexDigits, y \in HexDigits}
LowSurrogates ==
    {"{ud" \o h \o x \o y \o "}" :
         h \in {"c", "d", "e", "f"}, x \in HexDigits, y \in HexDigits}

\* lodash rsComboRange: U+0300..U+036F, U+FE20..U+FE2F, U+20D0..U+20FF
ComboMarks ==
    {"{u3" \o x \o y \o "}" :
         x \in {"0", "1", "2", "3", "4", "5", "6"}, y \in HexDigits}
    \cup {"{ufe2" \o y \o "}" : y \in HexDigits}
    \cup {"{u20" \o x \o y \o "}" : x \in {"d", "e", "f"}, y \in HexDigits}

\* lodash rsVarRange and rsZWJ
VariationSelectors == {"{ufe0e}", "{ufe0f}"}
ZeroWidthJoiner == "{u200d}"

\* the second units of lodash rsFitz (U+1F3FB..U+1F3FF) and rsRegional
\* (U+1F1E6..U+1F1FF), whose first unit is U+D83C
FitzSeconds == {"{udff" \o y \o "}" : y \in {"b", "c", "d", "e", "f"}}
RegionalSeconds ==
    {"{udde" \o y \o "}" :
         y \in {"6", "7", "8", "9", "a", "b", "c", "d", "e", "f"}}
    \cup {"{uddf" \o y \o "}" : y \in HexDigits}

IsFitzAt(s, p) ==
    p + 1 <= Len(s) /\ s[p] = "{ud83c}" /\ s[p + 1] \in FitzSeconds

IsRegionalAt(s, p) ==
    /\ p + 3 <= Len(s)
    /\ s[p] = "{ud83c}" /\ s[p + 1] \in RegionalSeconds
    /\ s[p + 2] = "{ud83c}" /\ s[p + 3] \in RegionalSeconds

IsSurrPairAt(s, p) ==
    p + 1 <= Len(s) /\ s[p] \in HighSurrogates /\ s[p + 1] \in LowSurrogates

IsNonAstralAt(s, p) ==
    p <= Len(s) /\ s[p] \notin HighSurrogates /\ s[p] \notin LowSurrogates

\* lodash rsOptVar and reOptMod: the position after an optional variation
\* selector, after an optional combining mark or skin-tone modifier
AfterOptVar(s, p) ==
    IF p <= Len(s) /\ s[p] \in VariationSelectors THEN p + 1 ELSE p

AfterOptMod(s, p) ==
    IF p <= Len(s) /\ s[p] \in ComboMarks THEN p + 1
    ELSE IF IsFitzAt(s, p) THEN p + 2
    ELSE p

\* lodash rsSymbol: a unit that is no surrogate with a combining mark after
\* it if there is one, a pair of regional indicators, a surrogate pair, or
\* a surrogate on its own
AfterSymbol(s, p) ==
    IF IsNonAstralAt(s, p)
    THEN IF p + 1 <= Len(s) /\ s[p + 1] \in ComboMarks THEN p + 2 ELSE p + 1
    ELSE IF IsRegionalAt(s, p) THEN p + 4
    ELSE IF IsSurrPairAt(s, p) THEN p + 2
    ELSE p + 1

\* the position after both
AfterOptVarMod(s, p) == The({AfterOptMod(s, q) : q \in {AfterOptVar(s, p)}})

RECURSIVE AfterOptJoin(_, _)
\* lodash rsOptJoin: any number of zero-width joiners, each with the
\* symbol it joins
AfterOptJoin(s, p) ==
    IF p <= Len(s) /\ s[p] = ZeroWidthJoiner
    THEN IF IsNonAstralAt(s, p + 1)
         THEN The({AfterOptJoin(s, q) : q \in {AfterOptVarMod(s, p + 2)}})
         ELSE IF IsRegionalAt(s, p + 1)
         THEN The({AfterOptJoin(s, q) : q \in {AfterOptVarMod(s, p + 5)}})
         ELSE IF IsSurrPairAt(s, p + 1)
         THEN The({AfterOptJoin(s, q) : q \in {AfterOptVarMod(s, p + 3)}})
         ELSE p
    ELSE p

\* one match of lodash reUnicode from the unit at p: the position after it
AfterMatch(s, p) ==
    IF IsFitzAt(s, p) /\ IsFitzAt(s, p + 2) THEN p + 2
    ELSE The({AfterOptJoin(s, r) :
                  r \in {AfterOptVarMod(s, q) : q \in {AfterSymbol(s, p)}}})

RECURSIVE unicodeToArray(_, _)
\* the matches of lodash reUnicode in s from the unit at p
unicodeToArray(s, p) ==
    IF p > Len(s) THEN <<>>
    ELSE The({<<SubSeq(s, p, q - 1)>> \o unicodeToArray(s, q) :
                  q \in {AfterMatch(s, p)}})

\* _.toArray(value) of lodash on a string: its characters, a surrogate
\* pair and a character with its combining marks being one
toArray(value) == The({unicodeToArray(s, 1) : s \in {value}})

-----------------------------------------------------------------------------
(* Constants of KeyHandler (src/unnamed/part_000, lines 44-62). *)

\* The grave accent (U+0060), written as the one character "grave".
kPunctuationListKey == <<"grave">>
kPunctuationListUnigramKey ==
    <<"_","p","u","n","c","t","u","a","t","i","o","n","_","l","i","s","t">>
kPunctuationKeyPrefix ==
    <<"_","p","u","n","c","t","u","a","t","i","o","n","_">>
kLetterPrefix == <<"_","l","e","t","t","e","r","_">>

kMinValidMarkingReadingCount == 2
kMaxValidMarkingReadingCount == 6

kComposingBufferSize == 20
kMaxComposingBufferSize == 100
kMinComposingBufferSize == 4
kMaxComposingBufferNeedsToWalkSize == 10
kNoOverrideThreshold == -8000000
kEpsilon == 1
kJoinSeparator == <<"-">>


-----------------------------------------------------------------------------
(* Mandarin: the syllable assembler (spec 4.1), cut down to one vowel key  *)
(* "u" (the component I) and one tone key "3" (the tone marker v).  A      *)
(* syllable is the set of its components; its composed string lists them   *)
(* in canonical order.  The key tables of the layouts are outside the      *)
(* source: the buffer keeps its layout, and the two keys are a vowel key   *)
(* and a tone key under each of them.                                      *)

\* BopomofoKeyboardLayout: the six layouts
StandardLayout == "StandardLayout"
ETenLayout == "ETenLayout"
HsuLayout == "HsuLayout"
ETen26Layout == "ETen26Layout"
HanyuPinyinLayout == "HanyuPinyinLayout"
IBMLayout == "IBMLayout"

\* new BopomofoReadingBuffer(BopomofoKeyboardLayout.StandardLayout)
NewBopomofoReadingBuffer ==
    [vowel |-> FALSE, tone |-> FALSE, keyboardLayout |-> StandardLayout]

\* BopomofoReadingBuffer.clear: the syllable is emptied, the layout stays
clear(reading) == [reading EXCEPT !.vowel = FALSE, !.tone = FALSE]

\* BopomofoReadingBuffer.isValidKey
isValidKey(ascii) == ascii = <<"u">> \/ ascii = <<"3">>

\* BopomofoReadingBuffer.combineKey
combineKey(reading, ascii) ==
    IF ascii = <<"u">> THEN [reading EXCEPT !.vowel = TRUE]
    ELSE IF ascii = <<"3">> THEN [reading EXCEPT !.tone = TRUE]
    ELSE reading

hasToneMarker(reading) == reading.tone
hasToneMarkerOnly(reading) == reading.tone /\ ~reading.vowel
isEmpty(reading) == ~reading.tone /\ ~reading.vowel

\* BopomofoSyllable.composedString
composedString(reading) ==
    (IF reading.vowel THEN <<"I">> ELSE <<>>) \o
    (IF reading.tone THEN <<"v">> ELSE <<>>)

\* BopomofoReadingBuffer.backspace: drops the last component
backspace(reading) ==
    IF reading.tone THEN [reading EXCEPT !.tone = FALSE]
    ELSE [reading EXCEPT !.vowel = FALSE]

\* BopomofoSyllable.FromComposedString(s).absoluteOrderString: a two
\* character code of the components found in s
absoluteOrderString(s) ==
    <<IF Includes(s, "I") THEN "1" ELSE "0",
      IF Includes(s, "v") THEN "2" ELSE "0">>

\* GetKeyboardLayoutName(layout), lines 64-77
GetKeyboardLayoutName(layout) ==
    IF layout = ETenLayout THEN <<"E","T","e","n">>
    ELSE IF layout = HsuLayout THEN <<"H","s","u">>
    ELSE IF layout = ETen26Layout THEN <<"E","T","e","n","2","6">>
    ELSE IF layout = HanyuPinyinLayout
    THEN <<"H","a","n","y","u","P","i","n","y","i","n">>
    ELSE IF layout = IBMLayout THEN <<"I","B","M">>
    ELSE <<"S","t","a","n","d","a","r","d">>

-----------------------------------------------------------------------------
(* WebLanguageModel (src/src/McBopomofo/WebLanguageModel.ts). *)

RECURSIVE MapSegments(_)
MapSegments(elements) ==
    IF Len(elements) = 0 THEN <<>>
    ELSE <<IF StartsWith(elements[1], <<"_">>)
           THEN elements[1]
           ELSE absoluteOrderString(elements[1])>>
         \o MapSegments(Tail(elements))

Placeholder == <<"_","_","_","_","_","_","_">>

\* WebLanguageModel.maybeAbsoluteOrderKey
maybeAbsoluteOrderKey(key) ==
    LET r == ReplaceAll(key, <<"_","-">>, Placeholder)
        elements == MapSegments(Split(r, "-"))
    IN  ReplaceAll(Join(elements, <<>>), Placeholder, <<"_","-">>)

\* The static dictionary (webData): absolute-order key -> the tokens of
\* its "value score value score ..." string.  The phrase of two syllables
\* is U+20000 U+20001, two characters of two units each.
webData ==
    (<<"1","0">> :> << <<"A">>, -3000000, <<"B">>, -5000000 >>) @@
    (<<"1","2">> :> << <<"C">>, -3000000, <<"D">>, -9000000 >>) @@
    (<<"1","2","1","2">>
         :> << <<"{ud840}", "{udc00}", "{ud840}", "{udc01}">>, -4000000 >>) @@
    (<<"1","2","1","0">> :> << <<"G">>, -5000000 >>) @@
    (kPunctuationListUnigramKey :> << <<"p">>, 0, <<"q">>, 0 >>) @@
    (kPunctuationKeyPrefix \o <<",">> :> << <<"p">>, 0 >>) @@
    (kLetterPrefix \o <<"A">> :> << <<"a">>, 0 >>)

\* The names every plain object inherits from Object.prototype: the `in`
\* operator finds them on map_, and what map_ holds under them is an object
\* or a function, which has no split.
ObjectPrototypeMembers ==
    {<<"_","_","d","e","f","i","n","e","G","e","t","t","e","r","_","_">>,
     <<"_","_","d","e","f","i","n","e","S","e","t","t","e","r","_","_">>,
     <<"_","_","l","o","o","k","u","p","G","e","t","t","e","r","_","_">>,
     <<"_","_","l","o","o","k","u","p","S","e","t","t","e","r","_","_">>,
     <<"_","_","p","r","o","t","o","_","_">>,
     <<"c","o","n","s","t","r","u","c","t","o","r">>,
     <<"h","a","s","O","w","n","P","r","o","p","e","r","t","y">>,
     <<"i","s","P","r","o","t","o","t","y","p","e","O","f">>,
     <<"p","r","o","p","e","r","t","y","I","s","E","n","u","m","e","r","a","b","l","e">>,
     <<"t","o","L","o","c","a","l","e","S","t","r","i","n","g">>,
     <<"t","o","S","t","r","i","n","g">>,
     <<"v","a","l","u","e","O","f">>}

\* actualKey in this.map_, lines 131 and 158: an own key of the dictionary
\* or a name it inherits
In(map, actualKey) ==
    actualKey \in DOMAIN map \/ actualKey \in ObjectPrototypeMembers

\* what a call that ends in a TypeError gives in place of a result
TypeError == <<"TypeError">>

KeyValuePair(key, value) == [key |-> key, value |-> value]
Unigram(keyValue, score) == [keyValue |-> keyValue, score |-> score]

\* UserPhrases.unigramsForKey
RECURSIVE UserUnigrams(_, _)
UserUnigrams(key, list) ==
    IF Len(list) = 0 THEN <<>>
    ELSE <<Unigram(KeyValuePair(key, list[1]), 0)>>
         \o UserUnigrams(key, Tail(list))

UserPhrasesUnigramsForKey(map, key) ==
    IF key \in DOMAIN map THEN UserUnigrams(key, map[key]) ELSE <<>>

\* UserPhrases.hasUnigramsForKey
UserPhrasesHasUnigramsForKey(map, key) ==
    key \in DOMAIN map /\ Len(map[key]) > 0

\* ChineseConvert.tw2cn, a character at a time: B is a variant that is
\* written A in simplified characters, D is written d
tw2cnChar(c) == IF c = "B" THEN "A" ELSE IF c = "D" THEN "d" ELSE c
tw2cn(input) == [i \in 1..Len(input) |-> tw2cnChar(input[i])]

\* ChineseConvert.cn2tw, a character at a time
cn2twChar(c) == IF c = "d" THEN "D" ELSE c
cn2tw(input) == [i \in 1..Len(input) |-> cn2twChar(input[i])]

\* the fields as constructed; converter_ and addUserPhraseConverter: the
\* converter setChineseConversionEnabled has set is defined;
\* onPhraseChange: the number of calls of the callback
WebLanguageModel(map) ==
    [map_ |-> map, userPhrases_ |-> <<>>, converter_ |-> FALSE,
     addUserPhraseConverter |-> FALSE, onPhraseChange |-> 0]

\* InputController, line 110: new WebLanguageModel(webData)
NewWebLanguageModel == WebLanguageModel(webData)

\* this.converter_(value) ?? value, when the converter is not null
Converted(lm, value) == IF lm.converter_ THEN tw2cn(value) ELSE value

\* the loop over the user phrases in WebLanguageModel.unigramsForKey;
\* returns <<result, usedValues>>
RECURSIVE MergeUser(_, _, _, _)
MergeUser(lm, phrases, result, usedValues) ==
    IF Len(phrases) = 0 THEN <<result, usedValues>>
    ELSE LET phrase == Unigram(KeyValuePair(phrases[1].keyValue.key,
                                   Converted(lm, phrases[1].keyValue.value)),
                               phrases[1].score)
             value == phrase.keyValue.value
         IN  MergeUser(lm, Tail(phrases),
                       IF Includes(usedValues, value) THEN result
                       ELSE Append(result, phrase),
                       Append(usedValues, value))

\* the loop over the dictionary tokens, two at a time
RECURSIVE MergeStatic(_, _, _, _, _, _)
MergeStatic(lm, key, values, i, result, usedValues) ==
    IF i > Len(values) THEN result
    ELSE LET value == Converted(lm, values[i])
             score == values[i + 1]
         IN  MergeStatic(lm, key, values, i + 2,
                         IF Includes(usedValues, value) THEN result
                         ELSE Append(result,
                                     Unigram(KeyValuePair(key, value), score)),
                         Append(usedValues, value))

\* WebLanguageModel.unigramsForKey
unigramsForKey(lm, key) ==
    IF key = <<" ">> THEN <<Unigram(KeyValuePair(<<" ">>, <<" ">>), 0)>>
    ELSE LET user == MergeUser(lm,
                               UserPhrasesUnigramsForKey(lm.userPhrases_, key),
                               <<>>, <<>>)
             actualKey == maybeAbsoluteOrderKey(key)
         IN  IF actualKey \in DOMAIN lm.map_
             THEN MergeStatic(lm, key, lm.map_[actualKey], 1, user[1], user[2])
             ELSE IF In(lm.map_, actualKey) THEN TypeError
             ELSE user[1]

\* lines 131-132: the lookup throws, this.map_[actualKey].split being
\* undefined for a name map_ inherits
unigramsForKeyThrows(lm, key) ==
    /\ key # <<" ">>
    /\ maybeAbsoluteOrderKey(key) \notin DOMAIN lm.map_
    /\ In(lm.map_, maybeAbsoluteOrderKey(key))

\* WebLanguageModel.hasUnigramsForKey
hasUnigramsForKey(lm, key) ==
    IF key = <<" ">> THEN TRUE
    ELSE IF UserPhrasesHasUnigramsForKey(lm.userPhrases_, key) THEN TRUE
    ELSE In(lm.map_, maybeAbsoluteOrderKey(key))

UserPhrasesAddUserPhraseAtFront(lm, key, phrase) ==
    LET map == lm.userPhrases_
    IN  IF key \in DOMAIN map /\ Includes(map[key], phrase) THEN lm
        ELSE [lm EXCEPT
                 !.userPhrases_ =
                     IF key \in DOMAIN map
                     THEN [map EXCEPT ![key] = <<phrase>> \o map[key]]
                     ELSE map @@ (key :> <<phrase>>),
                 !.onPhraseChange = @ + 1]

\* UserPhrases.addUserPhrase
UserPhrasesAddUserPhrase(lm, key, phrase) ==
    LET map == lm.userPhrases_
    IN  IF key \in DOMAIN map /\ Includes(map[key], phrase) THEN lm
        ELSE [lm EXCEPT
                 !.userPhrases_ =
                     IF key \in DOMAIN map
                     THEN [map EXCEPT ![key] = Append(map[key], phrase)]
                     ELSE map @@ (key :> <<phrase>>),
                 !.onPhraseChange = @ + 1]

\* a Map of user phrases with the given entries, and the argument of a call
\* that passes null or undefined for it
Map(entries) == [entries |-> entries]
NoMap == [undefined |-> TRUE]

\* UserPhrases.setUserPhrases, by way of WebLanguageModel.setUserPhrases:
\* the map replaces the one in use; the change callback is not called
UserPhrasesSetUserPhrases(lm, map) ==
    IF map = NoMap THEN lm
    ELSE [lm EXCEPT !.userPhrases_ = map.entries]

\* WebLanguageModel.addUserPhrase
addUserPhrase(lm, key, phrase) ==
    UserPhrasesAddUserPhrase(lm, key,
        IF lm.addUserPhraseConverter THEN cn2tw(phrase) ELSE phrase)

\* InputController.setChineseConversionEnabled
SetChineseConversionEnabled(lm, flag) ==
    [lm EXCEPT !.converter_ = flag, !.addUserPhraseConverter = flag]

-----------------------------------------------------------------------------
(* Gramambular: node, grid, reading builder and walker (spec 4.3, 4.4).    *)

kMaximumBuildSpanLength == 6
kSelectedCandidateScore == 99000000

NoNode == [key |-> <<>>, unigrams |-> <<>>, selectedUnigramIndex |-> 0,
           score |-> 0]

RECURSIVE InsertByScore(_, _)
\* stable insertion into a list sorted by score, highest first
InsertByScore(sorted, g) ==
    IF Len(sorted) = 0 THEN <<g>>
    ELSE IF g.score > sorted[1].score THEN <<g>> \o sorted
    ELSE <<sorted[1]>> \o InsertByScore(Tail(sorted), g)

RECURSIVE SortByScore(_, _)
SortByScore(unigrams, sorted) ==
    IF Len(unigrams) = 0 THEN sorted
    ELSE SortByScore(Tail(unigrams), InsertByScore(sorted, unigrams[1]))

\* new Node(key, unigrams): candidates sorted by score, the first selected
Node(key, unigrams) ==
    LET sorted == SortByScore(unigrams, <<>>)
    IN  [key |-> key, unigrams |-> sorted, selectedUnigramIndex |-> 1,
         score |-> sorted[1].score]

IsNode(node) == Len(node.unigrams) > 0

\* Node.currentKeyValue.value
currentValue(node) ==
    IF IsNode(node) THEN node.unigrams[node.selectedUnigramIndex].keyValue.value
    ELSE <<>>

\* Node.highestUnigramScore
highestUnigramScore(node) == node.unigrams[1].score

RECURSIVE ValuesOf(_)
\* Node.candidates, as their values
ValuesOf(unigrams) ==
    IF Len(unigrams) = 0 THEN <<>>
    ELSE <<unigrams[1].keyValue.value>> \o ValuesOf(Tail(unigrams))

RECURSIVE IndexOfValue(_, _, _)
\* index of the first candidate with this value, 0 if none
IndexOfValue(unigrams, value, i) ==
    IF i > Len(unigrams) THEN 0
    ELSE IF unigrams[i].keyValue.value = value THEN i
    ELSE IndexOfValue(unigrams, value, i + 1)

\* Node.resetCandidate
resetCandidate(node) ==
    [node EXCEPT !.selectedUnigramIndex = 1, !.score = node.unigrams[1].score]

\* Node.selectCandidateAtIndex: a pinned choice
selectCandidateAtIndex(node, i) ==
    [node EXCEPT !.selectedUnigramIndex = i, !.score = kSelectedCandidateScore]

\* Node.selectFloatingCandidateAtIndex: an override score
selectFloatingCandidateAtIndex(node, i, score) ==
    [node EXCEPT !.selectedUnigramIndex = i, !.score = score]

\* Node.scoreForCandidate; "undefined" when the node has no such candidate
scoreForCandidate(node, value) ==
    LET i == IndexOfValue(node.unigrams, value, 1)
    IN  IF i = 0 THEN [defined |-> FALSE, score |-> 0]
        ELSE [defined |-> TRUE, score |-> node.unigrams[i].score]

EmptySpan == [len \in 1..kMaximumBuildSpanLength |-> NoNode]

\* Span.removeNodeOfLengthGreaterThan
removeNodeOfLengthGreaterThan(span, n) ==
    [len \in 1..kMaximumBuildSpanLength |->
        IF len > n THEN NoNode ELSE span[len]]

\* the node of the grid at 0-based location i spanning len readings
NodeAt(grid, i, len) ==
    IF i >= 0 /\ i < Len(grid) /\ len >= 1 /\ len <= kMaximumBuildSpanLength
    THEN grid[i + 1][len] ELSE NoNode

\* Grid.expandGridByOneAtLocation
expandGridByOneAtLocation(grid, location) ==
    LET cut == [i \in 1..Len(grid) |->
                   IF i - 1 < location
                   THEN removeNodeOfLengthGreaterThan(grid[i], location - (i - 1))
                   ELSE grid[i]]
    IN  SubSeq(cut, 1, location) \o <<EmptySpan>>
        \o SubSeq(cut, location + 1, Len(cut))

\* Grid.shrinkGridByOneAtLocation
shrinkGridByOneAtLocation(grid, location) ==
    IF location >= Len(grid) THEN grid
    ELSE LET cut == [i \in 1..Len(grid) |->
                        IF i - 1 < location
                        THEN removeNodeOfLengthGreaterThan(grid[i],
                                                           location - (i - 1))
                        ELSE grid[i]]
         IN  SubSeq(cut, 1, location) \o SubSeq(cut, location + 2, Len(cut))

NodeAnchor(node, location, spanningLength) ==
    [node |-> node, location |-> location, spanningLength |-> spanningLength]

RECURSIVE CrossingFrom(_, _, _, _)
\* the scan of Grid.nodesCrossingOrEndingAt: begin i ascending, length j
\* ascending
CrossingFrom(grid, location, i, j) ==
    IF i >= location \/ i >= Len(grid) THEN <<>>
    ELSE IF j > kMaximumBuildSpanLength
         THEN CrossingFrom(grid, location, i + 1, 1)
    ELSE IF i + j >= location /\ IsNode(NodeAt(grid, i, j))
         THEN <<NodeAnchor(NodeAt(grid, i, j), i, location - i)>>
              \o CrossingFrom(grid, location, i, j + 1)
    ELSE CrossingFrom(grid, location, i, j + 1)

\* Grid.nodesCrossingOrEndingAt
nodesCrossingOrEndingAt(grid, location) == CrossingFrom(grid, location, 0, 1)

Crosses(i, len, location) == i - 1 < location /\ (i - 1) + len >= location

\* Grid.fixNodeSelectedCandidate: every node crossing or ending at the
\* location is reset, and those that have the value as a candidate are
\* pinned to it
fixNodeSelectedCandidate(grid, location, value) ==
    [i \in 1..Len(grid) |->
        [len \in 1..kMaximumBuildSpanLength |->
            LET node == grid[i][len]
            IN  IF IsNode(node) /\ Crosses(i, len, location)
                THEN LET k == IndexOfValue(node.unigrams, value, 1)
                     IN  IF k = 0 THEN resetCandidate(node)
                         ELSE selectCandidateAtIndex(node, k)
                ELSE node]]

RECURSIVE LastWithValue(_, _, _)
\* the anchor fixNodeSelectedCandidate returns: the last one of the scan
\* that has the value (an anchor of NoNode when there is none)
LastWithValue(anchors, value, found) ==
    IF Len(anchors) = 0 THEN found
    ELSE LastWithValue(Tail(anchors), value,
             IF IndexOfValue(anchors[1].node.unigrams, value, 1) # 0
             THEN anchors[1] ELSE found)

\* Grid.overrideNodeScoreForSelectedCandidate
overrideNodeScoreForSelectedCandidate(grid, location, value, overridingScore) ==
    [i \in 1..Len(grid) |->
        [len \in 1..kMaximumBuildSpanLength |->
            LET node == grid[i][len]
            IN  IF IsNode(node) /\ Crosses(i, len, location)
                THEN LET k == IndexOfValue(node.unigrams, value, 1)
                     IN  IF k = 0 THEN resetCandidate(node)
                         ELSE selectFloatingCandidateAtIndex(node, k,
                                                             overridingScore)
                ELSE node]]

\* BlockReadingBuilder, as constructed
EmptyBuilder == [readings_ |-> <<>>, cursorIndex_ |-> 0, grid_ |-> <<>>]

\* BlockReadingBuilder.build: the nodes of every span of 1..6 readings
\* within six readings of the cursor that the grid lacks and the language
\* model has unigrams for
build(builder, lm) ==
    LET readings == builder.readings_
        cursor == builder.cursorIndex_
        begin == IF cursor < kMaximumBuildSpanLength THEN 0
                 ELSE cursor - kMaximumBuildSpanLength
        end == Min(cursor + kMaximumBuildSpanLength, Len(readings))
        grid == builder.grid_
    IN  [builder EXCEPT !.grid_ =
            [i \in 1..Len(grid) |->
                [q \in 1..kMaximumBuildSpanLength |->
                    LET p == i - 1
                        old == grid[i][q]
                    IN  IF p >= begin /\ p + q <= end
                        THEN LET combinedReading ==
                                     Join(SubSeq(readings, p + 1, p + q),
                                          kJoinSeparator)
                             IN  IF IsNode(old) /\ old.key = combinedReading
                                 THEN old
                                 ELSE LET unigrams ==
                                              unigramsForKey(lm, combinedReading)
                                      IN  IF Len(unigrams) > 0
                                          THEN Node(combinedReading, unigrams)
                                          ELSE old
                        ELSE old]]]

\* BlockReadingBuilder.insertReadingAtCursor
insertReadingAtCursor(builder, lm, reading) ==
    LET c == builder.cursorIndex_
        r == SubSeq(builder.readings_, 1, c) \o <<reading>>
             \o SubSeq(builder.readings_, c + 1, Len(builder.readings_))
        b == build([builder EXCEPT
                       !.readings_ = r,
                       !.grid_ = expandGridByOneAtLocation(builder.grid_, c)],
                   lm)
    IN  [b EXCEPT !.cursorIndex_ = c + 1]

\* BlockReadingBuilder.deleteReadingBeforeCursor
deleteReadingBeforeCursor(builder, lm) ==
    LET c == builder.cursorIndex_
    IN  IF c = 0 THEN builder
        ELSE build([builder EXCEPT
                       !.readings_ = SubSeq(builder.readings_, 1, c - 1)
                           \o SubSeq(builder.readings_, c + 1,
                                     Len(builder.readings_)),
                       !.cursorIndex_ = c - 1,
                       !.grid_ = shrinkGridByOneAtLocation(builder.grid_, c - 1)],
                   lm)

\* BlockReadingBuilder.deleteReadingAfterCursor
deleteReadingAfterCursor(builder, lm) ==
    LET c == builder.cursorIndex_
    IN  IF c = Len(builder.readings_) THEN builder
        ELSE build([builder EXCEPT
                       !.readings_ = SubSeq(builder.readings_, 1, c)
                           \o SubSeq(builder.readings_, c + 2,
                                     Len(builder.readings_)),
                       !.grid_ = shrinkGridByOneAtLocation(builder.grid_, c)],
                   lm)

RECURSIVE removeHeadReadings(_, _, _)
\* BlockReadingBuilder.removeHeadReadings
removeHeadReadings(builder, lm, count) ==
    IF count > Len(builder.readings_) \/ count <= 0 THEN builder
    ELSE removeHeadReadings(
             build([builder EXCEPT
                       !.cursorIndex_ = IF @ > 0 THEN @ - 1 ELSE @,
                       !.readings_ = Tail(@),
                       !.grid_ = shrinkGridByOneAtLocation(@, 0)],
                   lm),
             lm, count - 1)

\* BlockReadingBuilder.cursorIndex (set): clamped to the number of readings
setCursorIndex(builder, value) ==
    [builder EXCEPT !.cursorIndex_ =
        IF value > Len(builder.readings_) THEN Len(builder.readings_)
        ELSE value]

NoPath == [reachable |-> FALSE, score |-> 0, path |-> <<>>]

RECURSIVE BestInto(_, _, _, _, _)
\* the best way into position p among the nodes of length len.. that end
\* there: the highest accumulated score, the longer span on a tie
BestInto(grid, best, p, len, found) ==
    IF len > kMaximumBuildSpanLength \/ len > p THEN found
    ELSE LET node == NodeAt(grid, p - len, len)
             prev == best[p - len + 1]
             cand == [reachable |-> TRUE,
                      score |-> prev.score + node.score,
                      path |-> Append(prev.path,
                                      NodeAnchor(node, p - len, len))]
         IN  BestInto(grid, best, p, len + 1,
                 IF IsNode(node) /\ prev.reachable
                    /\ (~found.reachable \/ cand.score >= found.score)
                 THEN cand ELSE found)

RECURSIVE Viterbi(_, _, _)
\* best[p + 1] is the best path over [0, p)
Viterbi(grid, best, p) ==
    IF p > Len(grid) THEN best
    ELSE Viterbi(grid, Append(best, BestInto(grid, best, p, 1, NoPath)), p + 1)

\* Walker.walk(0): the anchors of the most likely path, head to tail
WalkerWalk(grid) ==
    LET best == Viterbi(grid, <<[reachable |-> TRUE, score |-> 0,
                                 path |-> <<>>]>>, 1)
    IN  best[Len(grid) + 1].path

-----------------------------------------------------------------------------
(* UserOverrideModel (spec 4.5): the observations, most recent first, one  *)
(* chosen value per context.  The clock is an input of the call: whether   *)
(* the weight of a stored observation still exceeds the threshold at       *)
(* Date.now() is the flag "fresh".                                         *)

kUserOverrideModelCapacity == 500

RECURSIVE NodesUpTo(_, _, _, _)
\* the walked anchors up to the one that reaches the cursor
NodesUpTo(walked, cursorIndex, i, length) ==
    IF i > Len(walked) THEN <<>>
    ELSE IF length + walked[i].spanningLength >= cursorIndex THEN <<walked[i]>>
    ELSE <<walked[i]>>
         \o NodesUpTo(walked, cursorIndex, i + 1,
                      length + walked[i].spanningLength)

KeyValueOf(anchor) == <<anchor.node.key, currentValue(anchor.node)>>

\* the context of a position: the key of the node at the cursor and the
\* key and value of its two neighbours before it
ObservationKey(walked, cursorIndex) ==
    LET n == NodesUpTo(walked, cursorIndex, 1, 0)
        k == Len(n)
    IN  IF k = 0 THEN <<>>
        ELSE <<IF k >= 3 THEN KeyValueOf(n[k - 2]) ELSE <<>>,
               IF k >= 2 THEN KeyValueOf(n[k - 1]) ELSE <<>>,
               n[k].node.key>>

RECURSIVE WithoutKey(_, _)
WithoutKey(uom, key) ==
    IF Len(uom) = 0 THEN <<>>
    ELSE IF uom[1].key = key THEN WithoutKey(Tail(uom), key)
    ELSE <<uom[1]>> \o WithoutKey(Tail(uom), key)

\* UserOverrideModel.observe: insert or update, least recent evicted
observe(uom, walked, cursorIndex, candidate) ==
    LET key == ObservationKey(walked, cursorIndex)
        list == <<[key |-> key, value |-> candidate]>> \o WithoutKey(uom, key)
    IN  IF key = <<>> THEN uom
        ELSE SubSeq(list, 1, Min(Len(list), kUserOverrideModelCapacity))

RECURSIVE Lookup(_, _)
Lookup(uom, key) ==
    IF Len(uom) = 0 THEN <<>>
    ELSE IF uom[1].key = key THEN uom[1].value
    ELSE Lookup(Tail(uom), key)

\* UserOverrideModel.suggest: the stored value, "" when there is none or
\* its weight has decayed
suggest(uom, walked, cursorIndex, fresh) ==
    IF fresh THEN Lookup(uom, ObservationKey(walked, cursorIndex)) ELSE <<>>

-----------------------------------------------------------------------------
(* The input states (src/src/McBopomofo/InputState.ts). *)

Empty == [type |-> "Empty"]
EmptyIgnoringPrevious == [type |-> "EmptyIgnoringPrevious"]
Committing(text) == [type |-> "Committing", text |-> text]

Inputting(buf, index, tooltipText) ==
    [type |-> "Inputting", composingBuffer |-> buf, cursorIndex |-> index,
     tooltip |-> tooltipText, evictedText |-> <<>>]

ChoosingCandidate(buf, index, cs) ==
    [type |-> "ChoosingCandidate", composingBuffer |-> buf,
     cursorIndex |-> index, tooltip |-> <<>>, candidates |-> cs]

Marking(buf, index, tooltipText, startCursorIndexInGrid, headText, markedText, tailText, readingText, canAccept) ==
    [type |-> "Marking", composingBuffer |-> buf, cursorIndex |-> index,
     tooltip |-> tooltipText,
     markStartGridCursorIndex |-> startCursorIndexInGrid,
     head |-> headText, markedText |-> markedText, tail |-> tailText,
     reading |-> readingText, acceptable |-> canAccept]

\* state instanceof NotEmpty
IsNotEmpty(state) ==
    state.type \in {"Inputting", "ChoosingCandidate", "Marking"}

-----------------------------------------------------------------------------
(* LocalizedStrings: the texts themselves are outside the model; each      *)
(* message keeps its arguments.                                            *)

cursorIsBetweenSyllables(prevReading, nextReading) ==
    prevReading \o <<"|">> \o nextReading
syllablesRequired(count) == <<"syllablesRequired">>
syllableMaximum(count) == <<"syllableMaximum">>
phraseAlreadyExists == <<"phraseAlreadyExists">>
pressEnterToAddThePhrase == <<"pressEnterToAddThePhrase">>
markedWithSyllablesAndStatus(marked, readingUiText, status) ==
    marked \o <<"|">> \o readingUiText \o <<"|">> \o status

-----------------------------------------------------------------------------
(* KeyHandler (src/unnamed/part_000).  A handler is an operator from the   *)
(* handler's fields to the handler's fields; the field gridChanged is      *)
(* history: the grid was mutated after the last walk.                      *)

\* the fields as constructed
NewKeyHandler ==
    [selectPhraseAfterCursorAsCandidate_ |-> FALSE,
     moveCursorAfterSelection_ |-> FALSE,
     putLowercaseLettersToComposingBuffer_ |-> FALSE,
     escKeyClearsEntireComposingBuffer_ |-> FALSE,
     composingBufferSize_ |-> kComposingBufferSize,
     traditionalMode_ |-> FALSE,
     reading_ |-> NewBopomofoReadingBuffer,
     builder_ |-> EmptyBuilder,
     walkedNodes_ |-> <<>>,
     userOverrideModel_ |-> <<>>,
     gridChanged |-> FALSE]

SetComposingBufferSizeNoMinimum(kh, value) ==
    LET v1 == IF value > kMaxComposingBufferSize
              THEN kMaxComposingBufferSize ELSE value
    IN  [kh EXCEPT !.composingBufferSize_ = v1]

\* set composingBufferSize
SetComposingBufferSize(kh, value) ==
    LET v1 == IF value > kMaxComposingBufferSize
              THEN kMaxComposingBufferSize ELSE value
        v2 == IF v1 < kMinComposingBufferSize
              THEN kMinComposingBufferSize ELSE v1
    IN  [kh EXCEPT !.composingBufferSize_ = v2]

RECURSIVE FindHighestScoreFrom(_, _)
FindHighestScoreFrom(nodeAnchors, highestScore) ==
    IF Len(nodeAnchors) = 0 THEN highestScore
    ELSE IF ~IsNode(nodeAnchors[1].node)
    THEN FindHighestScoreFrom(Tail(nodeAnchors), highestScore)
    ELSE LET score == highestUnigramScore(nodeAnchors[1].node)
         IN  FindHighestScoreFrom(Tail(nodeAnchors),
                 IF score > highestScore THEN score ELSE highestScore)

FindHighestScore(nodeAnchors, epsilon) ==
    FindHighestScoreFrom(nodeAnchors, 0) + epsilon

\* a builder whose grid is replaced after a change of its nodes' selection:
\* the walked anchors refer to the nodes of the grid, so they see it
WithGrid(kh, grid) ==
    [kh EXCEPT
        !.builder_.grid_ = grid,
        !.walkedNodes_ =
            [i \in 1..Len(kh.walkedNodes_) |->
                LET a == kh.walkedNodes_[i]
                    n == NodeAt(grid, a.location, a.spanningLength)
                IN  IF IsNode(n) /\ n.key = a.node.key
                    THEN [a EXCEPT !.node = n] ELSE a],
        !.gridChanged = @ \/ grid # kh.builder_.grid_]

\* a builder replaced after a change of its readings
WithBuilder(kh, builder) ==
    [kh EXCEPT !.builder_ = builder,
               !.gridChanged = @ \/ builder.grid_ # kh.builder_.grid_]

walkKeepsPath(kh) == [kh EXCEPT !.gridChanged = FALSE]

\* KeyHandler.walk
walk(kh) ==
    [kh EXCEPT !.walkedNodes_ = WalkerWalk(kh.builder_.grid_),
               !.gridChanged = FALSE]

resetKeepsWalkedNodes(kh) ==
    [kh EXCEPT !.reading_ = clear(@),
               !.builder_ = EmptyBuilder,
               !.gridChanged = FALSE]

\* KeyHandler.reset
reset(kh) ==
    [kh EXCEPT !.reading_ = clear(@),
               !.builder_ = EmptyBuilder,
               !.walkedNodes_ = <<>>,
               !.gridChanged = FALSE]

\* actualCandidateCursorIndex stepping behind the cursor at the end of the
\* grid too
actualCandidateCursorIndexPastEnd(kh) ==
    LET cursorIndex == kh.builder_.cursorIndex_
        length == Len(kh.builder_.readings_)
    IN  IF kh.selectPhraseAfterCursorAsCandidate_
        THEN cursorIndex + 1
        ELSE IF cursorIndex = 0 /\ length > 0 THEN cursorIndex + 1
             ELSE cursorIndex

\* KeyHandler.actualCandidateCursorIndex
actualCandidateCursorIndex(kh) ==
    LET cursorIndex == kh.builder_.cursorIndex_
        length == Len(kh.builder_.readings_)
    IN  IF kh.selectPhraseAfterCursorAsCandidate_
        THEN IF cursorIndex < length THEN cursorIndex + 1 ELSE cursorIndex
        ELSE IF cursorIndex = 0 /\ length > 0 THEN cursorIndex + 1
             ELSE cursorIndex

popEvictedTextAndWalkOneReading(kh, lm) ==
    IF Len(kh.builder_.grid_) > kh.composingBufferSize_
       /\ Len(kh.walkedNodes_) # 0
    THEN LET anchor == kh.walkedNodes_[1]
         IN  <<walk(WithBuilder(kh, removeHeadReadings(kh.builder_, lm, 1))),
               currentValue(anchor.node)>>
    ELSE <<walk(kh), <<>>>>

\* KeyHandler.popEvictedTextAndWalk; returns <<handler, evictedText>>
popEvictedTextAndWalk(kh, lm) ==
    IF Len(kh.builder_.grid_) > kh.composingBufferSize_
       /\ Len(kh.walkedNodes_) # 0
    THEN LET anchor == kh.walkedNodes_[1]
         IN  <<walk(WithBuilder(kh, removeHeadReadings(kh.builder_, lm,
                                                       anchor.spanningLength))),
               currentValue(anchor.node)>>
    ELSE <<walk(kh), <<>>>>

\* lines 597-598: the first cpLen of the code points u32Value, joined
actualString(u32Value, distance) ==
    Join(SubSeq(u32Value, 1, Min(distance, Len(u32Value))), <<>>)

RECURSIVE ComposeFrom(_, _, _, _, _, _, _)
\* the loop of getComposedString over the walked anchors
ComposeFrom(kh, builderCursor, i, runningCursor, composed, composedCursor, tooltip) ==
    IF i > Len(kh.walkedNodes_)
    THEN [head |-> Substring(composed, 0, composedCursor),
          tail |-> Substring(composed, composedCursor, Len(composed)),
          tooltip |-> tooltip]
    ELSE LET anchor == kh.walkedNodes_[i]
             value == currentValue(anchor.node)
             spanningLength == anchor.spanningLength
             distance == builderCursor - runningCursor
         IN  IF ~IsNode(anchor.node)
             THEN ComposeFrom(kh, builderCursor, i + 1, runningCursor,
                              composed, composedCursor, tooltip)
             ELSE IF runningCursor = builderCursor
             THEN ComposeFrom(kh, builderCursor, i + 1, runningCursor,
                              composed \o value, composedCursor, tooltip)
             ELSE IF runningCursor + spanningLength <= builderCursor
             THEN ComposeFrom(kh, builderCursor, i + 1,
                              runningCursor + spanningLength,
                              composed \o value, composedCursor + Len(value),
                              tooltip)
             ELSE ComposeFrom(kh, builderCursor, i + 1,
                              runningCursor + distance,
                              composed \o value,
                              composedCursor
                                  + Len(actualString(toArray(value), distance)),
                              IF Len(toArray(value)) < spanningLength
                              THEN cursorIsBetweenSyllables(
                                       kh.builder_.readings_[builderCursor],
                                       kh.builder_.readings_[builderCursor + 1])
                              ELSE tooltip)

\* KeyHandler.getComposedString
getComposedString(kh, builderCursor) ==
    ComposeFrom(kh, builderCursor, 1, 0, <<>>, 0, <<>>)

buildInputtingStateCursorOneAhead(kh) ==
    LET composedString_ == getComposedString(kh, kh.builder_.cursorIndex_)
        head == composedString_.head
        reading == composedString(kh.reading_)
        tail == composedString_.tail
    IN  Inputting(head \o reading \o tail, Len(head) + Len(reading) + 1,
                  composedString_.tooltip)

\* KeyHandler.buildInputtingState
buildInputtingState(kh) ==
    LET composedString_ == getComposedString(kh, kh.builder_.cursorIndex_)
        head == composedString_.head
        reading == composedString(kh.reading_)
        tail == composedString_.tail
    IN  Inputting(head \o reading \o tail, Len(head) + Len(reading),
                  composedString_.tooltip)

RECURSIVE InsertByKeyLength(_, _)
\* stable insertion into a list sorted by the length of the key, longest
\* first
InsertByKeyLength(sorted, anchor) ==
    IF Len(sorted) = 0 THEN <<anchor>>
    ELSE IF Len(anchor.node.key) > Len(sorted[1].node.key)
         THEN <<anchor>> \o sorted
    ELSE <<sorted[1]>> \o InsertByKeyLength(Tail(sorted), anchor)

RECURSIVE SortByKeyLength(_, _)
SortByKeyLength(anchors, sorted) ==
    IF Len(anchors) = 0 THEN sorted
    ELSE SortByKeyLength(Tail(anchors), InsertByKeyLength(sorted, anchors[1]))

RECURSIVE CandidatesOf(_)
CandidatesOf(anchors) ==
    IF Len(anchors) = 0 THEN <<>>
    ELSE ValuesOf(anchors[1].node.unigrams) \o CandidatesOf(Tail(anchors))

buildChoosingCandidateStateCursorAtEnd(kh, nonEmptyState) ==
    LET anchoredNodes ==
            SortByKeyLength(
                nodesCrossingOrEndingAt(kh.builder_.grid_,
                                        actualCandidateCursorIndex(kh)),
                <<>>)
    IN  ChoosingCandidate(nonEmptyState.composingBuffer,
                          Len(nonEmptyState.composingBuffer),
                          CandidatesOf(anchoredNodes))

\* KeyHandler.buildChoosingCandidateState
buildChoosingCandidateState(kh, nonEmptyState) ==
    LET anchoredNodes ==
            SortByKeyLength(
                nodesCrossingOrEndingAt(kh.builder_.grid_,
                                        actualCandidateCursorIndex(kh)),
                <<>>)
    IN  ChoosingCandidate(nonEmptyState.composingBuffer,
                          nonEmptyState.cursorIndex,
                          CandidatesOf(anchoredNodes))

RECURSIVE HasValue(_, _)
HasValue(phrases, marked) ==
    IF Len(phrases) = 0 THEN FALSE
    ELSE IF phrases[1].keyValue.value = marked THEN TRUE
    ELSE HasValue(Tail(phrases), marked)

MarkedPhraseExistsNever(lm, readingValue, marked) == FALSE

\* MarkedPhraseExists
MarkedPhraseExists(lm, readingValue, marked) ==
    HasValue(unigramsForKey(lm, readingValue), marked)

buildMarkingStateNoMaximum(kh, lm, beginCursorIndex) ==
    LET cursor == kh.builder_.cursorIndex_
        atBegin == getComposedString(kh, beginCursorIndex)
        atCursor == getComposedString(kh, cursor)
        swap == beginCursorIndex > cursor
        from == IF swap THEN atCursor ELSE atBegin
        to == IF swap THEN atBegin ELSE atCursor
        fromIndex == IF swap THEN cursor ELSE beginCursorIndex
        toIndex == IF swap THEN beginCursorIndex ELSE cursor
        marked == Substring(to.head, Len(from.head), Len(to.head))
        readings == SubSeq(kh.builder_.readings_, fromIndex + 1, toIndex)
        readingValue == Join(readings, <<"-">>)
        tooShort == Len(readings) < kMinValidMarkingReadingCount
        exists == MarkedPhraseExists(lm, readingValue, marked)
        status == IF tooShort
                  THEN syllablesRequired(kMinValidMarkingReadingCount)
                  ELSE IF exists THEN phraseAlreadyExists
                  ELSE pressEnterToAddThePhrase
    IN  Marking(atCursor.head \o atCursor.tail, Len(atCursor.head),
                markedWithSyllablesAndStatus(marked, Join(readings, <<" ">>),
                                             status),
                beginCursorIndex, from.head, marked, to.tail, readingValue,
                ~tooShort /\ ~exists)

buildMarkingStateCursorAtMarkStart(kh, lm, beginCursorIndex) ==
    LET built == buildMarkingStateNoMaximum(kh, lm, beginCursorIndex)
    IN  [built EXCEPT !.cursorIndex =
            Len(getComposedString(kh, beginCursorIndex).head)]

\* KeyHandler.buildMarkingState
buildMarkingState(kh, lm, beginCursorIndex) ==
    LET cursor == kh.builder_.cursorIndex_
        atBegin == getComposedString(kh, beginCursorIndex)
        atCursor == getComposedString(kh, cursor)
        swap == beginCursorIndex > cursor
        from == IF swap THEN atCursor ELSE atBegin
        to == IF swap THEN atBegin ELSE atCursor
        fromIndex == IF swap THEN cursor ELSE beginCursorIndex
        toIndex == IF swap THEN beginCursorIndex ELSE cursor
        marked == Substring(to.head, Len(from.head), Len(to.head))
        readings == SubSeq(kh.builder_.readings_, fromIndex + 1, toIndex)
        readingValue == Join(readings, <<"-">>)
        tooShort == Len(readings) < kMinValidMarkingReadingCount
        tooLong == ~tooShort /\ Len(readings) > kMaxValidMarkingReadingCount
        exists == ~tooShort /\ ~tooLong
                  /\ MarkedPhraseExists(lm, readingValue, marked)
        status == IF tooShort
                  THEN syllablesRequired(kMinValidMarkingReadingCount)
                  ELSE IF tooLong
                  THEN syllableMaximum(kMaxValidMarkingReadingCount)
                  ELSE IF exists THEN phraseAlreadyExists
                  ELSE pressEnterToAddThePhrase
    IN  Marking(atCursor.head \o atCursor.tail, Len(atCursor.head),
                markedWithSyllablesAndStatus(marked, Join(readings, <<" ">>),
                                             status),
                beginCursorIndex, from.head, marked, to.tail, readingValue,
                ~tooShort /\ ~tooLong /\ ~exists)

RECURSIVE FixNodesFrom(_, _, _, _)
\* the loop of fixNodesIfRequired over the walked anchors
FixNodesFrom(kh, width, i, index) ==
    IF i > Len(kh.walkedNodes_)
       \/ index >= width - kMaxComposingBufferNeedsToWalkSize
    THEN kh
    ELSE LET node == kh.walkedNodes_[i]
             fixed == IF node.node.score < kSelectedCandidateScore
                      THEN WithGrid(kh,
                               fixNodeSelectedCandidate(
                                   kh.builder_.grid_,
                                   index + node.spanningLength,
                                   currentValue(node.node)))
                      ELSE kh
         IN  IF ~IsNode(node.node)
             THEN FixNodesFrom(kh, width, i + 1, index)
             ELSE FixNodesFrom(fixed, width, i + 1,
                               index + node.spanningLength)

\* fixNodesIfRequired without the limit of the last positions: every anchor
\* of a grid wider than the limit is pinned
fixNodesIfRequiredWholePath(kh) ==
    LET width == Len(kh.builder_.grid_)
    IN  IF width > kMaxComposingBufferNeedsToWalkSize
        THEN FixNodesFrom(kh, width + width, 1, 0)
        ELSE kh

\* KeyHandler.fixNodesIfRequired
fixNodesIfRequired(kh) ==
    LET width == Len(kh.builder_.grid_)
    IN  IF width > kMaxComposingBufferNeedsToWalkSize
        THEN FixNodesFrom(kh, width, 1, 0)
        ELSE kh

RECURSIVE NextPositionFrom(_, _, _, _)
\* the loop of pinNode that finds the end of the node at the cursor
NextPositionFrom(walked, cursorIndex, i, nextPosition) ==
    IF i > Len(walked) \/ nextPosition >= cursorIndex THEN nextPosition
    ELSE NextPositionFrom(walked, cursorIndex, i + 1,
                          nextPosition + walked[i].spanningLength)

\* pinNode, lines 1045-1057: after the walk the cursor moves behind the
\* selection
PinNodeWalked(walked, cursorIndex, moveCursor) ==
    LET nextPosition == NextPositionFrom(walked.walkedNodes_, cursorIndex, 1, 0)
    IN  IF moveCursor /\ nextPosition <= Len(walked.builder_.readings_)
        THEN [walked EXCEPT !.builder_ = setCursorIndex(@, nextPosition)]
        ELSE walked

\* pinNode observing a selection whose score is the threshold itself
PinNodeObserveAtThreshold(pinned, cursorIndex, candidate, score) ==
    IF score.defined /\ score.score >= kNoOverrideThreshold
    THEN [pinned EXCEPT !.userOverrideModel_ =
             observe(@, pinned.walkedNodes_, cursorIndex, candidate)]
    ELSE pinned

\* pinNode, lines 1030-1041: the override model observes the selection
PinNodeObserve(pinned, cursorIndex, candidate, score) ==
    IF score.defined /\ score.score > kNoOverrideThreshold
    THEN [pinned EXCEPT !.userOverrideModel_ =
             observe(@, pinned.walkedNodes_, cursorIndex, candidate)]
    ELSE pinned

\* pinNode, lines 1027-1057: after fixNodeSelectedCandidate
PinNodePinned(pinned, cursorIndex, candidate, moveCursor) ==
    PinNodeWalked(
        walk(PinNodeObserve(pinned, cursorIndex, candidate,
                 scoreForCandidate(
                     LastWithValue(
                         nodesCrossingOrEndingAt(pinned.builder_.grid_,
                                                 cursorIndex),
                         candidate, NodeAnchor(NoNode, 0, 0)).node,
                     candidate))),
        cursorIndex, moveCursor)

\* KeyHandler.pinNode
pinNode(kh, candidate, useMoveCursorAfterSelectionSetting) ==
    LET cursorIndex == actualCandidateCursorIndex(kh)
    IN  PinNodePinned(
            WithGrid(kh, fixNodeSelectedCandidate(kh.builder_.grid_,
                                                  cursorIndex, candidate)),
            cursorIndex, candidate,
            useMoveCursorAfterSelectionSetting /\ kh.moveCursorAfterSelection_)

-----------------------------------------------------------------------------
(* A call in progress: the handler and the language model as the call has  *)
(* changed them so far, the states given to stateCallback (each with what  *)
(* the grid and the walk were at that moment), the number of calls of      *)
(* errorCallback, the value returned, whether the call has inserted a      *)
(* reading, the text the last popEvictedTextAndWalk returned, and the      *)
(* number of calls of reset().                                             *)

Begin(kh, lm) ==
    [kh |-> kh, lm |-> lm, emitted |-> <<>>, errors |-> 0, returned |-> FALSE,
     inserted |-> FALSE, evictedText |-> <<>>, resets |-> 0]

Snapshot(x, state) ==
    [state |-> state,
     width |-> Len(x.kh.builder_.grid_),
     spans |-> [i \in 1..Len(x.kh.walkedNodes_) |->
                   <<x.kh.walkedNodes_[i].location,
                     x.kh.walkedNodes_[i].spanningLength>>],
     gridChanged |-> x.kh.gridChanged,
     inserted |-> x.inserted]

stateCallback(x, state) == [x EXCEPT !.emitted = Append(@, Snapshot(x, state))]
errorCallback(x) == [x EXCEPT !.errors = @ + 1]
Return(x, value) == [x EXCEPT !.returned = value]

\* this.reset()
ResetHandler(x) == [x EXCEPT !.kh = reset(@), !.resets = @ + 1]

\* stateCallback(this.buildInputtingState())
EmitInputtingState(x) == stateCallback(x, buildInputtingState(x.kh))

\* this.builder_.insertReadingAtCursor(reading)
Insert(x, reading) ==
    [x EXCEPT !.kh = WithBuilder(@, insertReadingAtCursor(@.builder_, x.lm,
                                                         reading)),
              !.inserted = TRUE]

\* the handler and the text that popEvictedTextAndWalk returned
Popped(x, popped) == [x EXCEPT !.kh = popped[1], !.evictedText = popped[2]]

\* let evictedText = this.popEvictedTextAndWalk()
PopEvictedTextAndWalk(x) == Popped(x, popEvictedTextAndWalk(x.kh, x.lm))

\* the state of buildInputtingState with its evictedText set
InputtingWithEvicted(kh, evictedText) ==
    [buildInputtingState(kh) EXCEPT !.evictedText = evictedText]

Key(ascii, name, shiftPressed) ==
    [ascii |-> ascii, name |-> name, shiftPressed |-> shiftPressed]

isCursorKeys(key) == key.name \in {"LEFT", "RIGHT", "HOME", "END"}
isDeleteKeys(key) == key.name \in {"BACKSPACE", "DELETE"}

RECURSIVE CurrentNodeFrom(_, _, _, _)
\* the loop of handleTabKey that finds the walked node at the cursor
CurrentNodeFrom(walked, cursorIndex, i, length) ==
    IF i > Len(walked) THEN NodeAnchor(NoNode, 0, 0)
    ELSE IF length + walked[i].spanningLength >= cursorIndex THEN walked[i]
    ELSE CurrentNodeFrom(walked, cursorIndex, i + 1,
                         length + walked[i].spanningLength)

RECURSIVE TabIndexFrom(_, _, _, _)
\* the loop of handleTabKey over the candidates, currentIndex counted from 0
TabIndexFrom(candidates, value, shiftPressed, currentIndex) ==
    IF currentIndex >= Len(candidates) THEN currentIndex
    ELSE IF candidates[currentIndex + 1] = value
         THEN IF shiftPressed
              THEN IF currentIndex = 0 THEN Len(candidates) - 1
                   ELSE currentIndex - 1
              ELSE currentIndex + 1
    ELSE TabIndexFrom(candidates, value, shiftPressed, currentIndex + 1)

\* TabCurrentIndex without the wrap of Shift + Tab to the last candidate
TabCurrentIndexShiftToFirst(candidates, currentNode, key) ==
    LET currentValue_ == currentValue(currentNode.node)
        found == IF currentNode.node.score < kSelectedCandidateScore
                 THEN IF candidates[1] = currentValue_
                      THEN IF key.shiftPressed THEN 0 ELSE 1
                      ELSE 0
                 ELSE TabIndexFrom(candidates, currentValue_, FALSE, 0)
    IN  IF found >= Len(candidates) THEN 0 ELSE found

\* handleTabKey, lines 662-697: the index of the candidate to select
TabCurrentIndex(candidates, currentNode, key) ==
    LET currentValue_ == currentValue(currentNode.node)
        found == IF currentNode.node.score < kSelectedCandidateScore
                 THEN IF candidates[1] = currentValue_
                      THEN IF key.shiftPressed THEN Len(candidates) - 1 ELSE 1
                      ELSE 0
                 ELSE TabIndexFrom(candidates, currentValue_,
                                   key.shiftPressed, 0)
    IN  IF found >= Len(candidates) THEN 0 ELSE found

\* TabThroughCandidates with the cursor moved as after a selection in the
\* candidate panel
TabThroughCandidatesMovingCursor(x, key, candidates, currentNode) ==
    IF Len(candidates) = 0 THEN Return(errorCallback(x), TRUE)
    ELSE Return(
             EmitInputtingState(
                 [x EXCEPT !.kh =
                     pinNode(@, candidates[TabCurrentIndex(candidates,
                                               currentNode, key) + 1],
                             TRUE)]),
             TRUE)

\* handleTabKey, lines 640-706: with the candidates at the cursor
TabThroughCandidates(x, key, candidates, currentNode) ==
    IF Len(candidates) = 0 THEN Return(errorCallback(x), TRUE)
    ELSE Return(
             EmitInputtingState(
                 [x EXCEPT !.kh =
                     pinNode(@, candidates[TabCurrentIndex(candidates,
                                               currentNode, key) + 1],
                             FALSE)]),
             TRUE)

\* KeyHandler.handleTabKey
handleTabKey(x, key, state) ==
    IF state.type # "Inputting" THEN Return(errorCallback(x), TRUE)
    ELSE IF ~isEmpty(x.kh.reading_) THEN Return(errorCallback(x), TRUE)
    ELSE TabThroughCandidates(
             x, key, buildChoosingCandidateState(x.kh, state).candidates,
             CurrentNodeFrom(x.kh.walkedNodes_, actualCandidateCursorIndex(x.kh),
                             1, 0))

\* CursorMoved marking whenever Shift is held
CursorMovedMarkingOnShift(x, key, markBeginCursorIndex) ==
    IF key.shiftPressed
    THEN Return(stateCallback(x, buildMarkingState(x.kh, x.lm,
                                                   markBeginCursorIndex)),
                TRUE)
    ELSE Return(EmitInputtingState(x), TRUE)

\* handleCursorKeys, lines 749-769: the state after the move
CursorMoved(x, key, markBeginCursorIndex) ==
    IF key.shiftPressed /\ x.kh.builder_.cursorIndex_ # markBeginCursorIndex
    THEN Return(stateCallback(x, buildMarkingState(x.kh, x.lm,
                                                   markBeginCursorIndex)),
                TRUE)
    ELSE Return(EmitInputtingState(x), TRUE)

\* handleCursorKeys with Left and Right moving whatever the cursor is
handleCursorKeysUnchecked(x, key, state) ==
    IF state.type \notin {"Inputting", "Marking"} THEN Return(x, FALSE)
    ELSE
    LET cursor == x.kh.builder_.cursorIndex_
        length == Len(x.kh.builder_.readings_)
        moved ==
            CASE key.name = "LEFT" -> cursor - 1
              [] key.name = "RIGHT" -> cursor + 1
              [] key.name = "HOME" -> 0
              [] key.name = "END" -> length
              [] OTHER -> cursor
    IN  IF ~isEmpty(x.kh.reading_)
        THEN Return(EmitInputtingState(errorCallback(x)), TRUE)
        ELSE CursorMoved(
                 [x EXCEPT !.kh.builder_ = [@ EXCEPT !.cursorIndex_ = moved]],
                 key,
                 IF state.type = "Marking"
                 THEN state.markStartGridCursorIndex ELSE cursor)

\* KeyHandler.handleCursorKeys
handleCursorKeys(x, key, state) ==
    IF state.type \notin {"Inputting", "Marking"} THEN Return(x, FALSE)
    ELSE
    LET cursor == x.kh.builder_.cursorIndex_
        length == Len(x.kh.builder_.readings_)
        isValidMove ==
            CASE key.name = "LEFT" -> cursor > 0
              [] key.name = "RIGHT" -> cursor < length
              [] key.name = "HOME" -> TRUE
              [] key.name = "END" -> TRUE
              [] OTHER -> FALSE
        moved ==
            CASE key.name = "LEFT" /\ cursor > 0 -> cursor - 1
              [] key.name = "RIGHT" /\ cursor < length -> cursor + 1
              [] key.name = "HOME" -> 0
              [] key.name = "END" -> length
              [] OTHER -> cursor
    IN  IF ~isEmpty(x.kh.reading_)
        THEN Return(EmitInputtingState(errorCallback(x)), TRUE)
        ELSE CursorMoved(
                 [x EXCEPT !.kh.builder_ = setCursorIndex(@, moved),
                           !.errors = IF isValidMove THEN @ ELSE @ + 1],
                 key,
                 IF state.type = "Marking"
                 THEN state.markStartGridCursorIndex ELSE cursor)

\* Deleted without the check for an empty handler
\* handleDeleteKeys, lines 811-818: the state after the delete
Deleted(x) ==
    IF isEmpty(x.kh.reading_) /\ Len(x.kh.builder_.readings_) = 0
    THEN Return(stateCallback(x, EmptyIgnoringPrevious), TRUE)
    ELSE Return(EmitInputtingState(x), TRUE)

handleDeleteKeysNotConsumed(x, key, state) == Return(x, FALSE)

\* KeyHandler.handleDeleteKeys
handleDeleteKeys(x, key, state) ==
    IF ~IsNotEmpty(state) THEN Return(x, FALSE)
    ELSE
    LET cursor == x.kh.builder_.cursorIndex_
        length == Len(x.kh.builder_.readings_)
        isValidDelete ==
            (key.name = "BACKSPACE" /\ cursor > 0)
            \/ (key.name = "DELETE" /\ cursor < length)
    IN  IF hasToneMarkerOnly(x.kh.reading_)
        THEN Deleted([x EXCEPT !.kh.reading_ = clear(@)])
        ELSE IF isEmpty(x.kh.reading_)
        THEN IF ~isValidDelete
             THEN Return(EmitInputtingState(errorCallback(x)), TRUE)
             ELSE IF key.name = "BACKSPACE"
             THEN Deleted([x EXCEPT !.kh = walk(WithBuilder(@,
                              deleteReadingBeforeCursor(@.builder_, x.lm)))])
             ELSE Deleted([x EXCEPT !.kh = walk(WithBuilder(@,
                              deleteReadingAfterCursor(@.builder_, x.lm)))])
        ELSE IF key.name = "BACKSPACE"
        THEN Deleted([x EXCEPT !.kh.reading_ = backspace(@)])
        ELSE Deleted(errorCallback(x))

\* handlePunctuation, lines 843-853: traditional mode, after the state
\* was emitted and the handler reset
PunctuationCandidates(x, candidateState) ==
    IF Len(candidateState.candidates) = 1
    THEN Return(stateCallback(x, Committing(candidateState.candidates[1])),
                TRUE)
    ELSE Return(stateCallback(x, candidateState), TRUE)

\* handlePunctuation, lines 836-854: after popEvictedTextAndWalk
PunctuationWalked(x) ==
    LET inputtingState == InputtingWithEvicted(x.kh, x.evictedText)
    IN  IF x.kh.traditionalMode_ /\ isEmpty(x.kh.reading_)
        THEN PunctuationCandidates(
                 ResetHandler(stateCallback(x, inputtingState)),
                 buildChoosingCandidateState(x.kh, inputtingState))
        ELSE Return(stateCallback(x, inputtingState), TRUE)

\* KeyHandler.handlePunctuation; "returned" is whether the key was handled
handlePunctuation(x, punctuationUnigramKey) ==
    IF ~hasUnigramsForKey(x.lm, punctuationUnigramKey) THEN Return(x, FALSE)
    ELSE IF ~isEmpty(x.kh.reading_)
    THEN Return(EmitInputtingState(errorCallback(x)), TRUE)
    ELSE PunctuationWalked(
             PopEvictedTextAndWalk(Insert(x, punctuationUnigramKey)))

ComposeCandidatesAlwaysPanel(x, choosingCandidates) ==
    Return(stateCallback(x, choosingCandidates), TRUE)

\* handle, lines 258-269: traditional mode, after the state was emitted
\* and the handler reset
ComposeCandidates(x, choosingCandidates) ==
    IF Len(choosingCandidates.candidates) = 1
    THEN Return(stateCallback(
                    stateCallback(x,
                        Committing(choosingCandidates.candidates[1])),
                    Empty), TRUE)
    ELSE Return(stateCallback(x, choosingCandidates), TRUE)

\* handle, lines 251-271: after fixNodesIfRequired
ComposeFixed(x) ==
    LET inputtingState == InputtingWithEvicted(x.kh, x.evictedText)
    IN  IF x.kh.traditionalMode_
        THEN ComposeCandidates(
                 ResetHandler(stateCallback(x, inputtingState)),
                 buildChoosingCandidateState(x.kh, inputtingState))
        ELSE Return(stateCallback(x, inputtingState), TRUE)

\* handle, lines 239-247: the suggestion overrides the score of its node
ComposeOverride(x, overrideValue, cursorIndex) ==
    IF Len(overrideValue) # 0
    THEN [x EXCEPT !.kh = WithGrid(@,
             overrideNodeScoreForSelectedCandidate(
                 @.builder_.grid_, cursorIndex, overrideValue,
                 FindHighestScore(
                     nodesCrossingOrEndingAt(@.builder_.grid_, cursorIndex),
                     kEpsilon)))]
    ELSE x

\* handle, lines 233-249: after popEvictedTextAndWalk
ComposeWalked(x, fresh) ==
    IF ~x.kh.traditionalMode_
    THEN ComposeFixed(
             [ComposeOverride(x,
                  suggest(x.kh.userOverrideModel_, x.kh.walkedNodes_,
                          x.kh.builder_.cursorIndex_, fresh),
                  actualCandidateCursorIndex(x.kh))
              EXCEPT !.kh = fixNodesIfRequired(@)])
    ELSE ComposeFixed([x EXCEPT !.kh = fixNodesIfRequired(@)])

\* the reading has no unigrams, and Inputting is emitted over an empty
\* grid too
ComposeNoUnigramsAlwaysInputting(x) ==
    Return(EmitInputtingState(errorCallback(x)), TRUE)

\* handle, lines 220-228: the reading has no unigrams
ComposeNoUnigrams(x) ==
    IF Len(x.kh.builder_.readings_) = 0
    THEN Return(stateCallback(errorCallback(x), EmptyIgnoringPrevious), TRUE)
    ELSE Return(EmitInputtingState(errorCallback(x)), TRUE)

\* handle, lines 216-272: compose the reading
ComposeReading(x, fresh) ==
    LET syllable == composedString(x.kh.reading_)
    IN  IF ~hasUnigramsForKey(x.lm, syllable)
        THEN ComposeNoUnigrams([x EXCEPT !.kh.reading_ = clear(@)])
        ELSE ComposeWalked(
                 PopEvictedTextAndWalk(
                     Insert([x EXCEPT !.kh.reading_ = clear(@)],
                            syllable)),
                 fresh)

\* handle, lines 285-291: Shift + Space puts a space into the buffer
ShiftSpaceWalked(x) ==
    Return(stateCallback(x, InputtingWithEvicted(x.kh, x.evictedText)), TRUE)

\* handle, lines 292-303: Shift + Space commits the buffer and a space
ShiftSpaceCommit(x) ==
    Return(ResetHandler(stateCallback(x, Committing(<<" ">>))), TRUE)

ShiftSpaceCommitsSpaceFirst(x) ==
    IF x.kh.putLowercaseLettersToComposingBuffer_
    THEN ShiftSpaceWalked(PopEvictedTextAndWalk(Insert(x, <<" ">>)))
    ELSE IF Len(x.kh.builder_.readings_) # 0
    THEN Return(ResetHandler(
                    stateCallback(stateCallback(x, Committing(<<" ">>)),
                        Committing(buildInputtingState(x.kh).composingBuffer))),
                TRUE)
    ELSE ShiftSpaceCommit(x)

\* handle, lines 284-304: Shift + Space
ShiftSpace(x) ==
    IF x.kh.putLowercaseLettersToComposingBuffer_
    THEN ShiftSpaceWalked(PopEvictedTextAndWalk(Insert(x, <<" ">>)))
    ELSE IF Len(x.kh.builder_.readings_) # 0
    THEN ShiftSpaceCommit(
             stateCallback(x,
                 Committing(buildInputtingState(x.kh).composingBuffer)))
    ELSE ShiftSpaceCommit(x)

EscWithoutStateCheck(x, state) ==
    IF x.kh.escKeyClearsEntireComposingBuffer_
    THEN Return(stateCallback(ResetHandler(x), EmptyIgnoringPrevious), TRUE)
    ELSE IF ~isEmpty(x.kh.reading_)
    THEN IF Len(x.kh.builder_.readings_) = 0
         THEN Return(stateCallback([x EXCEPT !.kh.reading_ = clear(@)],
                                   EmptyIgnoringPrevious), TRUE)
         ELSE Return(EmitInputtingState(
                         [x EXCEPT !.kh.reading_ = clear(@)]), TRUE)
    ELSE Return(EmitInputtingState(x), TRUE)

EscKeepsReading(x, state) ==
    IF ~IsNotEmpty(state) THEN Return(x, FALSE)
    ELSE IF x.kh.escKeyClearsEntireComposingBuffer_
    THEN Return(stateCallback(ResetHandler(x), EmptyIgnoringPrevious), TRUE)
    ELSE IF ~isEmpty(x.kh.reading_) /\ Len(x.kh.builder_.readings_) = 0
    THEN Return(stateCallback(x, EmptyIgnoringPrevious), TRUE)
    ELSE Return(EmitInputtingState(x), TRUE)

\* handle, lines 318-341: Esc
Esc(x, state) ==
    IF ~IsNotEmpty(state) THEN Return(x, FALSE)
    ELSE IF x.kh.escKeyClearsEntireComposingBuffer_
    THEN Return(stateCallback(ResetHandler(x), EmptyIgnoringPrevious), TRUE)
    ELSE IF ~isEmpty(x.kh.reading_)
    THEN IF Len(x.kh.builder_.readings_) = 0
         THEN Return(stateCallback([x EXCEPT !.kh.reading_ = clear(@)],
                                   EmptyIgnoringPrevious), TRUE)
         ELSE Return(EmitInputtingState(
                         [x EXCEPT !.kh.reading_ = clear(@)]), TRUE)
    ELSE Return(EmitInputtingState(x), TRUE)

EnterWithoutAddUserPhrase(x, state) ==
    IF ~IsNotEmpty(state) THEN Return(x, FALSE)
    ELSE IF ~isEmpty(x.kh.reading_)
    THEN Return(EmitInputtingState(errorCallback(x)), TRUE)
    ELSE IF state.type = "Marking"
    THEN IF state.acceptable
         THEN Return(EmitInputtingState(x), TRUE)
         ELSE Return(stateCallback(errorCallback(x),
                         buildMarkingState(x.kh, x.lm,
                                           state.markStartGridCursorIndex)),
                     TRUE)
    ELSE Return(ResetHandler(
                    stateCallback(x,
                        Committing(buildInputtingState(x.kh).composingBuffer))),
                TRUE)

\* Enter without the check for a reading in progress
EnterIgnoringReading(x, state) ==
    IF ~IsNotEmpty(state) THEN Return(x, FALSE)
    ELSE IF state.type = "Marking"
    THEN IF state.acceptable
         THEN Return(EmitInputtingState(
                         [x EXCEPT !.lm = addUserPhrase(@, state.reading,
                                                        state.markedText)]),
                     TRUE)
         ELSE Return(stateCallback(errorCallback(x),
                         buildMarkingState(x.kh, x.lm,
                                           state.markStartGridCursorIndex)),
                     TRUE)
    ELSE Return(ResetHandler(
                    stateCallback(x,
                        Committing(buildInputtingState(x.kh).composingBuffer))),
                TRUE)

\* handle, lines 358-396: Enter
Enter(x, state) ==
    IF ~IsNotEmpty(state) THEN Return(x, FALSE)
    ELSE IF ~isEmpty(x.kh.reading_)
    THEN Return(EmitInputtingState(errorCallback(x)), TRUE)
    ELSE IF state.type = "Marking"
    THEN IF state.acceptable
         THEN Return(EmitInputtingState(
                         [x EXCEPT !.lm = addUserPhrase(@, state.reading,
                                                        state.markedText)]),
                     TRUE)
         ELSE Return(stateCallback(errorCallback(x),
                         buildMarkingState(x.kh, x.lm,
                                           state.markStartGridCursorIndex)),
                     TRUE)
    ELSE Return(ResetHandler(
                    stateCallback(x,
                        Committing(buildInputtingState(x.kh).composingBuffer))),
                TRUE)

\* handle, lines 404-414: after popEvictedTextAndWalk
PunctuationListWalked(x) ==
    LET inputtingState == InputtingWithEvicted(x.kh, x.evictedText)
    IN  Return(stateCallback(stateCallback(x, inputtingState),
                   buildChoosingCandidateState(x.kh, inputtingState)),
               TRUE)

\* PunctuationList with an Inputting state emitted when the key is refused
PunctuationListRefusedWithState(x) ==
    IF isEmpty(x.kh.reading_)
    THEN PunctuationListWalked(
             PopEvictedTextAndWalk(Insert(x, kPunctuationListUnigramKey)))
    ELSE Return(EmitInputtingState(errorCallback(x)), TRUE)

\* handle, lines 398-419: the key that brings up the punctuation list
PunctuationList(x) ==
    IF isEmpty(x.kh.reading_)
    THEN PunctuationListWalked(
             PopEvictedTextAndWalk(Insert(x, kPunctuationListUnigramKey)))
    ELSE Return(errorCallback(x), TRUE)

UpperCaseLetters ==
    {"A", "B", "C", "D", "E", "F", "G", "H", "I", "J", "K", "L", "M", "N",
     "O", "P", "Q", "R", "S", "T", "U", "V", "W", "X", "Y", "Z"}

UnhandledWithoutState(x, state) ==
    IF IsNotEmpty(state)
    THEN Return(errorCallback(x), TRUE)
    ELSE Return(x, FALSE)

\* handle, lines 480-487: no key is handled
Unhandled(x, state) ==
    IF IsNotEmpty(state)
    THEN Return(EmitInputtingState(errorCallback(x)), TRUE)
    ELSE Return(x, FALSE)

\* handle, lines 453-477: upper case letters
Letters(x, key, state) ==
    IF Len(key.ascii) = 1 /\ key.ascii[1] \in UpperCaseLetters
    THEN IF x.kh.putLowercaseLettersToComposingBuffer_
         THEN Return(handlePunctuation(x, kLetterPrefix \o key.ascii), TRUE)
         ELSE IF ~IsNotEmpty(state) THEN Return(x, FALSE)
         ELSE Return(
                  ResetHandler(
                      stateCallback(
                          stateCallback(x,
                              Committing(
                                  buildInputtingState(x.kh).composingBuffer)),
                          Committing(key.ascii))), TRUE)
    ELSE Unhandled(x, state)

\* handle, lines 447-477: after the punctuation of any layout was tried
AfterPunctuation(x, key, state, handled) ==
    IF handled.returned THEN handled ELSE Letters(x, key, state)

\* handle, lines 441-477: after the punctuation of the layout was tried
AfterLayoutPunctuation(x, key, state, handled) ==
    IF handled.returned THEN handled
    ELSE AfterPunctuation(x, key, state,
             handlePunctuation(x, kPunctuationKeyPrefix \o key.ascii))

\* OtherKeys with the punctuation of any layout tried first
OtherKeysGenericFirst(x, key, state) ==
    IF key.ascii = <<>> THEN Unhandled(x, state)
    ELSE LET generic == handlePunctuation(x, kPunctuationKeyPrefix \o key.ascii)
         IN  IF generic.returned THEN generic
             ELSE AfterPunctuation(x, key, state,
                      handlePunctuation(x, kPunctuationKeyPrefix
                          \o GetKeyboardLayoutName(
                                 x.kh.reading_.keyboardLayout)
                          \o <<"_">> \o key.ascii))

\* handle, lines 421-478: punctuation and upper case letters
OtherKeys(x, key, state) ==
    IF key.ascii = <<>> THEN Unhandled(x, state)
    ELSE AfterLayoutPunctuation(x, key, state,
             handlePunctuation(x, kPunctuationKeyPrefix
                 \o GetKeyboardLayoutName(x.kh.reading_.keyboardLayout)
                 \o <<"_">> \o key.ascii))

\* handle, lines 284-487: the keys the reading did not consume
NotConsumedByReading(x, key, state) ==
    IF key.name = "SPACE" /\ key.shiftPressed THEN ShiftSpace(x)
    ELSE IF key.name \in {"SPACE", "DOWN"} /\ IsNotEmpty(state)
            /\ isEmpty(x.kh.reading_)
    THEN Return(stateCallback(x, buildChoosingCandidateState(x.kh, state)),
                TRUE)
    ELSE IF key.name = "ESC" THEN Esc(x, state)
    ELSE IF key.name = "TAB" THEN handleTabKey(x, key, state)
    ELSE IF isCursorKeys(key) THEN handleCursorKeys(x, key, state)
    ELSE IF isDeleteKeys(key) THEN handleDeleteKeys(x, key, state)
    ELSE IF key.name = "RETURN" THEN Enter(x, state)
    ELSE IF key.ascii = kPunctuationListKey
            /\ hasUnigramsForKey(x.lm, kPunctuationListUnigramKey)
    THEN PunctuationList(x)
    ELSE OtherKeys(x, key, state)

HandleWithReading(x, key, state, fresh, keyConsumedByReading) ==
    LET reading == x.kh.reading_
        shouldComposeReading ==
            (hasToneMarker(reading) /\ ~hasToneMarkerOnly(reading))
            \/ (~isEmpty(reading) /\ key.name = "SPACE")
    IN  IF keyConsumedByReading /\ ~hasToneMarker(reading)
        THEN Return(EmitInputtingState(x), TRUE)
        ELSE IF shouldComposeReading THEN ComposeReading(x, fresh)
        ELSE IF keyConsumedByReading
        THEN Return(EmitInputtingState(x), TRUE)
        ELSE NotConsumedByReading(x, key, state)

\* KeyHandler.handle; fresh: an observation the override model has for
\* this context still counts at the time of the call
handle(x, key, state, fresh) ==
    IF key.ascii \in {<<"S","h","i","f","t">>, <<"M","e","t","a">>,
                      <<"A","l","t">>}
    THEN Return(x, FALSE)
    ELSE HandleWithReading(
             IF isValidKey(key.ascii)
             THEN [x EXCEPT !.kh.reading_ = combineKey(@, key.ascii)]
             ELSE x,
             key, state, fresh, isValidKey(key.ascii))

\* KeyHandler.candidateSelected
candidateSelected(x, candidate) ==
    IF x.kh.traditionalMode_
    THEN stateCallback(ResetHandler(x), Committing(candidate))
    ELSE EmitInputtingState([x EXCEPT !.kh = pinNode(@, candidate, TRUE)])

\* KeyHandler.candidatePanelCancelled
candidatePanelCancelled(x) ==
    IF x.kh.traditionalMode_
    THEN stateCallback(ResetHandler(x), EmptyIgnoringPrevious)
    ELSE EmitInputtingState(x)

\* KeyHandler.handlePunctuationKeyInCandidatePanelForTraditionalMode
handlePunctuationKeyInCandidatePanelForTraditionalMode(x, key, defaultCandidate, fresh) ==
    LET chrStr == key.ascii
        customPunctuation ==
            kPunctuationKeyPrefix
            \o GetKeyboardLayoutName(x.kh.reading_.keyboardLayout)
            \o <<"_">> \o chrStr
        punctuation == kPunctuationKeyPrefix \o chrStr
        shouldAutoSelectCandidate ==
            \/ isValidKey(chrStr)
            \/ hasUnigramsForKey(x.lm, customPunctuation)
            \/ hasUnigramsForKey(x.lm, punctuation)
            \/ /\ Len(chrStr) = 1
               /\ chrStr[1] \in UpperCaseLetters
               /\ hasUnigramsForKey(x.lm, kLetterPrefix \o chrStr)
    IN  IF shouldAutoSelectCandidate
        THEN Return(handle(ResetHandler(
                               stateCallback(x, Committing(defaultCandidate))),
                           key, Empty, fresh), TRUE)
        ELSE Return(errorCallback(x), FALSE)

-----------------------------------------------------------------------------
(* The keys of the model, as KeyFromKeyboardEvent builds them. *)

KeyU == Key(<<"u">>, "ASCII", FALSE)
Key3 == Key(<<"3">>, "ASCII", FALSE)
KeyComma == Key(<<",">>, "ASCII", FALSE)
KeyGrave == Key(kPunctuationListKey, "ASCII", FALSE)
KeyUpperA == Key(<<"A">>, "ASCII", TRUE)
KeyUpperB == Key(<<"B">>, "ASCII", TRUE)
KeyShift == Key(<<"S","h","i","f","t">>, "ASCII", TRUE)
KeySpace == Key(<<" ">>, "SPACE", FALSE)
KeyShiftSpace == Key(<<" ">>, "SPACE", TRUE)
KeyLeft == Key(<<"A","r","r","o","w","L","e","f","t">>, "LEFT", FALSE)
KeyRight == Key(<<"A","r","r","o","w","R","i","g","h","t">>, "RIGHT", FALSE)
KeyShiftLeft == Key(<<"A","r","r","o","w","L","e","f","t">>, "LEFT", TRUE)
KeyShiftRight == Key(<<"A","r","r","o","w","R","i","g","h","t">>, "RIGHT", TRUE)
KeyHome == Key(<<"H","o","m","e">>, "HOME", FALSE)
KeyShiftHome == Key(<<"H","o","m","e">>, "HOME", TRUE)
KeyEnd == Key(<<"E","n","d">>, "END", FALSE)
KeyUp == Key(<<"A","r","r","o","w","U","p">>, "UP", FALSE)
KeyDown == Key(<<"A","r","r","o","w","D","o","w","n">>, "DOWN", FALSE)
KeyBackspace == Key(<<"B","a","c","k","s","p","a","c","e">>, "BACKSPACE", FALSE)
KeyDelete == Key(<<"D","e","l","e","t","e">>, "DELETE", FALSE)
KeyEnter == Key(<<"E","n","t","e","r">>, "RETURN", FALSE)
KeyEsc == Key(<<"E","s","c","a","p","e">>, "ESC", FALSE)
KeyTab == Key(<<"T","a","b">>, "TAB", FALSE)
KeyShiftTab == Key(<<"T","a","b">>, "TAB", TRUE)

NoKey == Key(<<>>, "UNKNOWN", FALSE)

-----------------------------------------------------------------------------
(* The state machine. *)

\* commits: the texts given to InputUI.commitString, in order; resets: the
\* number of calls of KeyHandler.reset; thrown: the call ended in a
\* TypeError instead of returning
NoCall ==
    [op |-> "new", key |-> NoKey, value |-> 0, emitted |-> <<>>, errors |-> 0,
     returned |-> FALSE, commits |-> <<>>, resets |-> 0, thrown |-> FALSE]

\* candidateKeys_ as constructed
DefaultCandidateKeys == <<"1", "2", "3", "4", "5", "6", "7", "8", "9">>

\* the argument of a call that passes undefined, the result of a call that
\* returns it
Undefined == <<"undefined">>

\* CandidateController (spec 4.6): the flat list of candidates, the hotkeys
\* of a page and the index (from 0) of the highlighted candidate
NewCandidateController ==
    [candidates_ |-> <<>>, keyCaps_ |-> <<>>, currentSelectedIndex_ |-> 0]

\* CandidateController.update
update(candidates, keyCaps) ==
    [candidates_ |-> candidates, keyCaps_ |-> keyCaps,
     currentSelectedIndex_ |-> 0]

\* the index (from 0) of the first candidate of the page shown
PageStart(controller) ==
    LET size == Len(controller.keyCaps_)
    IN  IF size = 0 THEN 0
        ELSE (controller.currentSelectedIndex_ \div size) * size

\* CandidateController.getCurrentPage, as the candidates of the page
getCurrentPage(controller) ==
    LET start == PageStart(controller)
    IN  SubSeq(controller.candidates_, start + 1,
               Min(start + Len(controller.keyCaps_),
                   Len(controller.candidates_)))

\* CandidateController.selectedCandidate: undefined when there is no
\* candidate
selectedCandidate(controller) ==
    IF controller.currentSelectedIndex_ < Len(controller.candidates_)
    THEN controller.candidates_[controller.currentSelectedIndex_ + 1]
    ELSE Undefined

\* Array.prototype.indexOf on the hotkeys, from 0; -1 when there is none
KeyCapIndex(keyCaps, ascii) ==
    LET found == {i \in 1..Len(keyCaps) : keyCaps[i] = StringOf(ascii)}
    IN  IF found = {} THEN -1
        ELSE (CHOOSE i \in found : \A j \in found : i <= j) - 1

\* CandidateController.selectedCandidateWithKey: the candidate at the slot
\* of the hotkey on the page shown
selectedCandidateWithKey(controller, ascii) ==
    LET slot == KeyCapIndex(controller.keyCaps_, ascii)
        offset == PageStart(controller) + slot
    IN  IF slot < 0 \/ offset >= Len(controller.candidates_) THEN Undefined
        ELSE controller.candidates_[offset + 1]

LastIndex(controller) ==
    IF Len(controller.candidates_) = 0 THEN 0
    ELSE Len(controller.candidates_) - 1

goToNextItem(controller) ==
    IF controller.currentSelectedIndex_ + 1 >= Len(controller.candidates_)
    THEN controller
    ELSE [controller EXCEPT !.currentSelectedIndex_ = @ + 1]

goToPreviousItem(controller) ==
    IF controller.currentSelectedIndex_ = 0 THEN controller
    ELSE [controller EXCEPT !.currentSelectedIndex_ = @ - 1]

\* the highlight moves by the size of a page, no further than the last
\* candidate
goToNextPage(controller) ==
    [controller EXCEPT !.currentSelectedIndex_ =
        Min(@ + Len(controller.keyCaps_), LastIndex(controller))]

goToPreviousPage(controller) ==
    [controller EXCEPT !.currentSelectedIndex_ =
        IF @ < Len(controller.keyCaps_) THEN 0
        ELSE @ - Len(controller.keyCaps_)]

goToFirst(controller) == [controller EXCEPT !.currentSelectedIndex_ = 0]

goToLast(controller) ==
    [controller EXCEPT !.currentSelectedIndex_ = LastIndex(controller)]

\* on the last page the highlight goes back to the first candidate
goToNextPageButFistWhenAtEnd(controller) ==
    IF PageStart(controller) + Len(controller.keyCaps_)
           >= Len(controller.candidates_)
    THEN goToFirst(controller)
    ELSE goToNextPage(controller)

\* InputController.handleCandidateKeyEvent, lines 347-381: the key that
\* moves the highlight or turns the page
Navigated(controller, name, vertical) ==
    CASE name = "SPACE" -> goToNextPageButFistWhenAtEnd(controller)
      [] name = "LEFT" -> IF vertical THEN goToPreviousPage(controller)
                          ELSE goToPreviousItem(controller)
      [] name = "RIGHT" -> IF vertical THEN goToNextPage(controller)
                           ELSE goToNextItem(controller)
      [] name = "HOME" -> goToFirst(controller)
      [] name = "END" -> goToLast(controller)
      [] name = "UP" -> IF vertical THEN goToPreviousItem(controller)
                        ELSE goToPreviousPage(controller)
      [] name = "DOWN" -> IF vertical THEN goToNextItem(controller)
                          ELSE goToNextPage(controller)
      [] name = "PAGE_UP" -> goToPreviousPage(controller)
      [] name = "PAGE_DOWN" -> goToNextPage(controller)
      [] OTHER -> controller

Init ==
    /\ keyHandler_ = NewKeyHandler
    /\ lm_ = NewWebLanguageModel
    /\ state_ = Empty
    /\ candidateKeys_ = DefaultCandidateKeys
    /\ candidateController_ = NewCandidateController
    /\ useVerticalCandidates_ = FALSE
    /\ call = NoCall

\* InputController.handleEmpty: the texts it commits
handleEmpty(prev, state) ==
    IF IsNotEmpty(prev) THEN <<prev.composingBuffer>> ELSE <<>>

handleEmptyIgnoringPreviousCommits(prev, state) ==
    IF IsNotEmpty(prev) THEN <<prev.composingBuffer>> ELSE <<>>

\* InputController.handleEmptyIgnoringPrevious
handleEmptyIgnoringPrevious(prev, state) == <<>>

\* InputController.handleCommitting
handleCommitting(prev, state) ==
    IF Len(state.text) > 0 THEN <<state.text>> ELSE <<>>

\* InputController.handleInputting
handleInputting(prev, state) ==
    IF Len(state.evictedText) > 0 THEN <<state.evictedText>> ELSE <<>>

\* InputController.handleChoosingCandidate: the texts it commits
handleChoosingCandidate(prev, state) == <<>>

\* InputController.handleMarking
handleMarking(prev, state) == <<>>

\* InputController.enterNewState; controller: state_ and the texts
\* committed so far.  handleCommitting reads state.text.length, a TypeError
\* when the text is undefined, before state_ is assigned
enterNewState(controller, state) ==
    LET prev == controller.state_
    IN  IF state.type = "Committing" /\ state.text = Undefined
        THEN [controller EXCEPT !.thrown = TRUE]
        ELSE [state_ |-> state,
              candidateKeys_ |-> controller.candidateKeys_,
              candidateController_ |->
                  IF state.type = "ChoosingCandidate"
                  THEN update(state.candidates, controller.candidateKeys_)
                  ELSE controller.candidateController_,
              commits |-> controller.commits \o
                  (CASE state.type = "Empty" -> handleEmpty(prev, state)
                     [] state.type = "EmptyIgnoringPrevious"
                            -> handleEmptyIgnoringPrevious(prev, state)
                     [] state.type = "Committing"
                            -> handleCommitting(prev, state)
                     [] state.type = "Inputting" -> handleInputting(prev, state)
                     [] state.type = "ChoosingCandidate"
                            -> handleChoosingCandidate(prev, state)
                     [] state.type = "Marking" -> handleMarking(prev, state)),
              thrown |-> FALSE]

RECURSIVE EnterStatesFrom(_, _, _)
EnterStatesFrom(emitted, i, controller) ==
    IF i > Len(emitted) \/ controller.thrown THEN controller
    ELSE EnterStatesFrom(emitted, i + 1,
                         enterNewState(controller, emitted[i].state))

\* the fields of the controller enterNewState reads or writes, and the
\* texts committed so far
Controller(state, candidateController) ==
    [state_ |-> state, candidateKeys_ |-> candidateKeys_,
     candidateController_ |-> candidateController, commits |-> <<>>,
     thrown |-> FALSE]

\* InputController.enterNewState for each state emitted, in order
EnterStates(emitted, state) ==
    EnterStatesFrom(emitted, 1, Controller(state, candidateController_))

\* the call has returned, or has thrown: the fields of the controller
\* after it
Entered(op, key, x, returned, controller) ==
    /\ keyHandler_' = x.kh
    /\ lm_' = x.lm
    /\ state_' = controller.state_
    /\ candidateKeys_' = candidateKeys_
    /\ candidateController_' = controller.candidateController_
    /\ useVerticalCandidates_' = useVerticalCandidates_
    /\ call' = [op |-> op, key |-> key, value |-> 0, emitted |-> x.emitted,
                errors |-> x.errors,
                returned |-> returned /\ ~controller.thrown,
                commits |-> controller.commits, resets |-> x.resets,
                thrown |-> controller.thrown]

Returned(op, key, x, returned) ==
    Entered(op, key, x, returned, EnterStates(x.emitted, state_))

\* the bounds of a specification: the readings of the grid, the contexts
\* the override model has observed, the readings with user phrases
Bounds(width, observations, phrases) ==
    [width |-> width, observations |-> observations, phrases |-> phrases]

\* the fields after a call are within the bounds
Within(x, bounds) ==
    /\ Len(x.kh.builder_.readings_) <= bounds.width
    /\ Len(x.kh.userOverrideModel_) <= bounds.observations
    /\ Cardinality(DOMAIN x.lm.userPhrases_) <= bounds.phrases

Freshness == IF keyHandler_.userOverrideModel_ = <<>> THEN {TRUE} ELSE BOOLEAN

\* InputController.mcbopomofoKeyEvent outside the candidate panel:
\* KeyHandler.handle for a key of the set keys, within the bounds
mcbopomofoKeyEvent(keys, bounds) ==
    /\ state_.type # "ChoosingCandidate"
    /\ \E key \in keys, fresh \in Freshness :
           \E x \in {handle(Begin(keyHandler_, lm_), key, state_, fresh)} :
               Within(x, bounds) /\ Returned("handle", key, x, x.returned)

\* the keys of the hotkeys candidateKeys_ is constructed with, and Enter
SelectingKeys ==
    {Key(<<"1">>, "ASCII", FALSE), Key(<<"2">>, "ASCII", FALSE),
     Key(<<"3">>, "ASCII", FALSE), Key(<<"4">>, "ASCII", FALSE),
     Key(<<"5">>, "ASCII", FALSE), Key(<<"6">>, "ASCII", FALSE),
     Key(<<"7">>, "ASCII", FALSE), Key(<<"8">>, "ASCII", FALSE),
     Key(<<"9">>, "ASCII", FALSE), KeyEnter}

\* Esc and Backspace
CancellingKeys == {KeyEsc, KeyBackspace}

\* line 320: the candidate at the hotkey key.ascii on the page shown,
\* whatever the name of the key and whether or not Shift is held
SelectedBy(key) == selectedCandidateWithKey(candidateController_, key.ascii)

\* InputController.handleCandidateKeyEvent, lines 320-338: a key whose
\* ascii is a hotkey selects the candidate at its slot; otherwise Enter
\* selects the highlighted candidate, which is undefined when the panel
\* has none
handleCandidateKeyEventSelected(keys, bounds) ==
    /\ state_.type = "ChoosingCandidate"
    /\ \E key \in keys :
           /\ SelectedBy(key) # Undefined \/ key.name = "RETURN"
           /\ \E x \in {candidateSelected(
                             Begin(keyHandler_, lm_),
                             IF SelectedBy(key) # Undefined
                             THEN SelectedBy(key)
                             ELSE selectedCandidate(candidateController_))} :
                  Within(x, bounds)
                  /\ Returned("candidateSelected", key, x, TRUE)

\* InputController.handleCandidateKeyEvent, lines 340-345: Esc or Backspace
handleCandidateKeyEventCancelled(keys) ==
    /\ state_.type = "ChoosingCandidate"
    /\ \E key \in keys :
           /\ SelectedBy(key) = Undefined
           /\ key.name # "RETURN"
           /\ key.name \in {"ESC", "BACKSPACE"}
           /\ Returned("candidatePanelCancelled", key,
                       candidatePanelCancelled(Begin(keyHandler_, lm_)), TRUE)

\* the call has returned after the highlight of the panel has moved
Navigate(op, key, x, navigated) ==
    Entered(op, key, x, TRUE,
            EnterStatesFrom(x.emitted, 1, Controller(state_, navigated)))

\* line 388: getCurrentPage()[0].candidate is a TypeError when the page is
\* empty; the highlight has moved and the key handler has not been called
Thrown(op, key, x, navigated) ==
    Entered(op, key, x, FALSE,
            [Controller(state_, navigated) EXCEPT !.thrown = TRUE])

\* InputController.handleCandidateKeyEvent, lines 347-395: any other key
\* moves the highlight or turns the page if it is one of the keys that
\* do; in traditional mode it then goes to the key handler with the first
\* candidate of the page shown
handleCandidateKeyEventOther(keys, bounds) ==
    /\ state_.type = "ChoosingCandidate"
    /\ \E key \in keys, fresh \in Freshness :
           \E navigated \in {Navigated(candidateController_, key.name,
                                       useVerticalCandidates_)} :
               /\ SelectedBy(key) = Undefined
               /\ key.name \notin {"RETURN", "ESC", "BACKSPACE"}
               /\ IF ~keyHandler_.traditionalMode_
                  THEN Navigate("candidateKey", key, Begin(keyHandler_, lm_),
                                navigated)
                  ELSE IF getCurrentPage(navigated) = <<>>
                  THEN Thrown("candidateKey", key, Begin(keyHandler_, lm_),
                              navigated)
                  ELSE \E x \in
                           {handlePunctuationKeyInCandidatePanelForTraditionalMode(
                                Begin(keyHandler_, lm_), key,
                                getCurrentPage(navigated)[1], fresh)} :
                           Within(x, bounds)
                           /\ Navigate("candidateKey", key, x, navigated)

\* InputController.reset
Reset ==
    Returned("reset", NoKey,
             stateCallback(ResetHandler(Begin(keyHandler_, lm_)),
                           EmptyIgnoringPrevious),
             FALSE)

\* InputController.setComposingBufferSize
setComposingBufferSize(sizes) ==
    \E size \in sizes :
        /\ keyHandler_' = SetComposingBufferSize(keyHandler_, size)
        /\ call' = [NoCall EXCEPT !.op = "setComposingBufferSize",
                                  !.value = size]
        /\ UNCHANGED <<lm_, state_, candidateKeys_, candidateController_,
                     useVerticalCandidates_>>

\* KeyHandler.keyboardLayout (set), lines 137-139
SetKeyboardLayout(kh, value) == [kh EXCEPT !.reading_.keyboardLayout = value]

\* the switch of InputController.setKeyboardLayout
KeyboardLayoutNamed(layout) ==
    CASE layout = <<"E","T","e","n">> -> ETenLayout
      [] layout = <<"H","s","u">> -> HsuLayout
      [] layout = <<"E","T","e","n","2","6">> -> ETen26Layout
      [] layout = <<"H","a","n","y","u","P","i","n","y","i","n">>
             -> HanyuPinyinLayout
      [] layout = <<"I","B","M">> -> IBMLayout
      [] OTHER -> StandardLayout

\* InputController.setKeyboardLayout(layout)
setKeyboardLayout(layouts) ==
    \E layout \in layouts :
        /\ keyHandler_' =
               SetKeyboardLayout(keyHandler_, KeyboardLayoutNamed(layout))
        /\ call' = [NoCall EXCEPT !.op = "setKeyboardLayout"]
                    @@ [layout |-> layout]
        /\ UNCHANGED <<lm_, state_, candidateKeys_, candidateController_,
                       useVerticalCandidates_>>

\* InputController.setUserVerticalCandidates(flag)
setUserVerticalCandidates ==
    \E flag \in BOOLEAN :
        /\ useVerticalCandidates_' = flag
        /\ call' = [NoCall EXCEPT !.op = "setUserVerticalCandidates"]
        /\ UNCHANGED <<keyHandler_, lm_, state_, candidateKeys_,
                       candidateController_>>

\* InputController.setTraditionalMode
setTraditionalMode ==
    \E flag \in BOOLEAN :
        /\ keyHandler_' = [keyHandler_ EXCEPT !.traditionalMode_ = flag]
        /\ call' = [NoCall EXCEPT !.op = "setTraditionalMode"]
        /\ UNCHANGED <<lm_, state_, candidateKeys_, candidateController_,
                     useVerticalCandidates_>>

\* InputController.setSelectPhrase(option)
setSelectPhrase ==
    \E option \in {"after_cursor", "before_cursor"} :
        /\ keyHandler_' =
               [keyHandler_ EXCEPT !.selectPhraseAfterCursorAsCandidate_ =
                                       option = "after_cursor"]
        /\ call' = [NoCall EXCEPT !.op = "setSelectPhrase"]
        /\ UNCHANGED <<lm_, state_, candidateKeys_, candidateController_,
                     useVerticalCandidates_>>

\* InputController.setMoveCursorAfterSelection(flag)
setMoveCursorAfterSelection ==
    \E flag \in BOOLEAN :
        /\ keyHandler_' = [keyHandler_ EXCEPT !.moveCursorAfterSelection_ = flag]
        /\ call' = [NoCall EXCEPT !.op = "setMoveCursorAfterSelection"]
        /\ UNCHANGED <<lm_, state_, candidateKeys_, candidateController_,
                     useVerticalCandidates_>>

\* InputController.setLetterMode(letterCase)
setLetterMode ==
    \E letterCase \in {"lower", "upper"} :
        /\ keyHandler_' =
               [keyHandler_ EXCEPT !.putLowercaseLettersToComposingBuffer_ =
                                       letterCase = "lower"]
        /\ call' = [NoCall EXCEPT !.op = "setLetterMode"]
        /\ UNCHANGED <<lm_, state_, candidateKeys_, candidateController_,
                     useVerticalCandidates_>>

\* InputController.setEscClearEntireBuffer(flag)
setEscClearEntireBuffer ==
    \E flag \in BOOLEAN :
        /\ keyHandler_' =
               [keyHandler_ EXCEPT !.escKeyClearsEntireComposingBuffer_ = flag]
        /\ call' = [NoCall EXCEPT !.op = "setEscClearEntireBuffer"]
        /\ UNCHANGED <<lm_, state_, candidateKeys_, candidateController_,
                     useVerticalCandidates_>>

\* String.prototype.toLowerCase on one unit: the units of the Basic
\* Multilingual Plane that have a lower case in Unicode 16, and their lower
\* case in the same order; that of U+0130 is the two units "i{u307}"
UpperCase ==
    <<"A", "B", "C", "D", "E", "F", "G", "H", "I", "J", "K", "L", "M", "N",
      "O", "P", "Q", "R", "S", "T", "U", "V", "W", "X", "Y", "Z", "{uc0}",
      "{uc1}", "{uc2}", "{uc3}", "{uc4}", "{uc5}", "{uc6}", "{uc7}", "{uc8}",
      "{uc9}", "{uca}", "{ucb}", "{ucc}", "{ucd}", "{uce}", "{ucf}", "{ud0}",
      "{ud1}", "{ud2}", "{ud3}", "{ud4}", "{ud5}", "{ud6}", "{ud8}", "{ud9}",
      "{uda}", "{udb}", "{udc}", "{udd}", "{ude}", "{u100}", "{u102}",
      "{u104}", "{u106}", "{u108}", "{u10a}", "{u10c}", "{u10e}", "{u110}",
      "{u112}", "{u114}", "{u116}", "{u118}", "{u11a}", "{u11c}", "{u11e}",
      "{u120}", "{u122}", "{u124}", "{u126}", "{u128}", "{u12a}", "{u12c}",
      "{u12e}", "{u130}", "{u132}", "{u134}", "{u136}", "{u139}", "{u13b}",
      "{u13d}", "{u13f}", "{u141}", "{u143}", "{u145}", "{u147}", "{u14a}",
      "{u14c}", "{u14e}", "{u150}", "{u152}", "{u154}", "{u156}", "{u158}",
      "{u15a}", "{u15c}", "{u15e}", "{u160}", "{u162}", "{u164}", "{u166}",
      "{u168}", "{u16a}", "{u16c}", "{u16e}", "{u170}", "{u172}", "{u174}",
      "{u176}", "{u178}", "{u179}", "{u17b}", "{u17d}", "{u181}", "{u182}",
      "{u184}", "{u186}", "{u187}", "{u189}", "{u18a}", "{u18b}", "{u18e}",
      "{u18f}", "{u190}", "{u191}", "{u193}", "{u194}", "{u196}", "{u197}",
      "{u198}", "{u19c}", "{u19d}", "{u19f}", "{u1a0}", "{u1a2}", "{u1a4}",
      "{u1a6}", "{u1a7}", "{u1a9}", "{u1ac}", "{u1ae}", "{u1af}", "{u1b1}",
      "{u1b2}", "{u1b3}", "{u1b5}", "{u1b7}", "{u1b8}", "{u1bc}", "{u1c4}",
      "{u1c5}", "{u1c7}", "{u1c8}", "{u1ca}", "{u1cb}", "{u1cd}", "{u1cf}",
      "{u1d1}", "{u1d3}", "{u1d5}", "{u1d7}", "{u1d9}", "{u1db}", "{u1de}",
      "{u1e0}", "{u1e2}", "{u1e4}", "{u1e6}", "{u1e8}", "{u1ea}", "{u1ec}",
      "{u1ee}", "{u1f1}", "{u1f2}", "{u1f4}", "{u1f6}", "{u1f7}", "{u1f8}",
      "{u1fa}", "{u1fc}", "{u1fe}", "{u200}", "{u202}", "{u204}", "{u206}",
      "{u208}", "{u20a}", "{u20c}", "{u20e}", "{u210}", "{u212}", "{u214}",
      "{u216}", "{u218}", "{u21a}", "{u21c}", "{u21e}", "{u220}", "{u222}",
      "{u224}", "{u226}", "{u228}", "{u22a}", "{u22c}", "{u22e}", "{u230}",
      "{u232}", "{u23a}", "{u23b}", "{u23d}", "{u23e}", "{u241}", "{u243}",
      "{u244}", "{u245}", "{u246}", "{u248}", "{u24a}", "{u24c}", "{u24e}",
      "{u370}", "{u372}", "{u376}", "{u37f}", "{u386}", "{u388}", "{u389}",
      "{u38a}", "{u38c}", "{u38e}", "{u38f}", "{u391}", "{u392}", "{u393}",
      "{u394}", "{u395}", "{u396}", "{u397}", "{u398}", "{u399}", "{u39a}",
      "{u39b}", "{u39c}", "{u39d}", "{u39e}", "{u39f}", "{u3a0}", "{u3a1}",
      "{u3a3}", "{u3a4}", "{u3a5}", "{u3a6}", "{u3a7}", "{u3a8}", "{u3a9}",
      "{u3aa}", "{u3ab}", "{u3cf}", "{u3d8}", "{u3da}", "{u3dc}", "{u3de}",
      "{u3e0}", "{u3e2}", "{u3e4}", "{u3e6}", "{u3e8}", "{u3ea}", "{u3ec}",
      "{u3ee}", "{u3f4}", "{u3f7}", "{u3f9}", "{u3fa}", "{u3fd}", "{u3fe}",
      "{u3ff}", "{u400}", "{u401}", "{u402}", "{u403}", "{u404}", "{u405}",
      "{u406}", "{u407}", "{u408}", "{u409}", "{u40a}", "{u40b}", "{u40c}",
      "{u40d}", "{u40e}", "{u40f}", "{u410}", "{u411}", "{u412}", "{u413}",
      "{u414}", "{u415}", "{u416}", "{u417}", "{u418}", "{u419}", "{u41a}",
      "{u41b}", "{u41c}", "{u41d}", "{u41e}", "{u41f}", "{u420}", "{u421}",
      "{u422}", "{u423}", "{u424}", "{u425}", "{u426}", "{u427}", "{u428}",
      "{u429}", "{u42a}", "{u42b}", "{u42c}", "{u42d}", "{u42e}", "{u42f}",
      "{u460}", "{u462}", "{u464}", "{u466}", "{u468}", "{u46a}", "{u46c}",
      "{u46e}", "{u470}", "{u472}", "{u474}", "{u476}", "{u478}", "{u47a}",
      "{u47c}", "{u47e}", "{u480}", "{u48a}", "{u48c}", "{u48e}", "{u490}",
      "{u492}", "{u494}", "{u496}", "{u498}", "{u49a}", "{u49c}", "{u49e}",
      "{u4a0}", "{u4a2}", "{u4a4}", "{u4a6}", "{u4a8}", "{u4aa}", "{u4ac}",
      "{u4ae}", "{u4b0}", "{u4b2}", "{u4b4}", "{u4b6}", "{u4b8}", "{u4ba}",
      "{u4bc}", "{u4be}", "{u4c0}", "{u4c1}", "{u4c3}", "{u4c5}", "{u4c7}",
      "{u4c9}", "{u4cb}", "{u4cd}", "{u4d0}", "{u4d2}", "{u4d4}", "{u4d6}",
      "{u4d8}", "{u4da}", "{u4dc}", "{u4de}", "{u4e0}", "{u4e2}", "{u4e4}",
      "{u4e6}", "{u4e8}", "{u4ea}", "{u4ec}", "{u4ee}", "{u4f0}", "{u4f2}",
      "{u4f4}", "{u4f6}", "{u4f8}", "{u4fa}", "{u4fc}", "{u4fe}", "{u500}",
      "{u502}", "{u504}", "{u506}", "{u508}", "{u50a}", "{u50c}", "{u50e}",
      "{u510}", "{u512}", "{u514}", "{u516}", "{u518}", "{u51a}", "{u51c}",
      "{u51e}", "{u520}", "{u522}", "{u524}", "{u526}", "{u528}", "{u52a}",
      "{u52c}", "{u52e}", "{u531}", "{u532}", "{u533}", "{u534}", "{u535}",
      "{u536}", "{u537}", "{u538}", "{u539}", "{u53a}", "{u53b}", "{u53c}",
      "{u53d}", "{u53e}", "{u53f}", "{u540}", "{u541}", "{u542}", "{u543}",
      "{u544}", "{u545}", "{u546}", "{u547}", "{u548}", "{u549}", "{u54a}",
      "{u54b}", "{u54c}", "{u54d}", "{u54e}", "{u54f}", "{u550}", "{u551}",
      "{u552}", "{u553}", "{u554}", "{u555}", "{u556}", "{u10a0}", "{u10a1}",
      "{u10a2}", "{u10a3}", "{u10a4}", "{u10a5}", "{u10a6}", "{u10a7}",
      "{u10a8}", "{u10a9}", "{u10aa}", "{u10ab}", "{u10ac}", "{u10ad}",
      "{u10ae}", "{u10af}", "{u10b0}", "{u10b1}", "{u10b2}", "{u10b3}",
      "{u10b4}", "{u10b5}", "{u10b6}", "{u10b7}", "{u10b8}", "{u10b9}",
      "{u10ba}", "{u10bb}", "{u10bc}", "{u10bd}", "{u10be}", "{u10bf}",
      "{u10c0}", "{u10c1}", "{u10c2}", "{u10c3}", "{u10c4}", "{u10c5}",
      "{u10c7}", "{u10cd}", "{u13a0}", "{u13a1}", "{u13a2}", "{u13a3}",
      "{u13a4}", "{u13a5}", "{u13a6}", "{u13a7}", "{u13a8}", "{u13a9}",
      "{u13aa}", "{u13ab}", "{u13ac}", "{u13ad}", "{u13ae}", "{u13af}",
      "{u13b0}", "{u13b1}", "{u13b2}", "{u13b3}", "{u13b4}", "{u13b5}",
      "{u13b6}", "{u13b7}", "{u13b8}", "{u13b9}", "{u13ba}", "{u13bb}",
      "{u13bc}", "{u13bd}", "{u13be}", "{u13bf}", "{u13c0}", "{u13c1}",
      "{u13c2}", "{u13c3}", "{u13c4}", "{u13c5}", "{u13c6}", "{u13c7}",
      "{u13c8}", "{u13c9}", "{u13ca}", "{u13cb}", "{u13cc}", "{u13cd}",
      "{u13ce}", "{u13cf}", "{u13d0}", "{u13d1}", "{u13d2}", "{u13d3}",
      "{u13d4}", "{u13d5}", "{u13d6}", "{u13d7}", "{u13d8}", "{u13d9}",
      "{u13da}", "{u13db}", "{u13dc}", "{u13dd}", "{u13de}", "{u13df}",
      "{u13e0}", "{u13e1}", "{u13e2}", "{u13e3}", "{u13e4}", "{u13e5}",
      "{u13e6}", "{u13e7}", "{u13e8}", "{u13e9}", "{u13ea}", "{u13eb}",
      "{u13ec}", "{u13ed}", "{u13ee}", "{u13ef}", "{u13f0}", "{u13f1}",
      "{u13f2}", "{u13f3}", "{u13f4}", "{u13f5}", "{u1c90}", "{u1c91}",
      "{u1c92}", "{u1c93}", "{u1c94}", "{u1c95}", "{u1c96}", "{u1c97}",
      "{u1c98}", "{u1c99}", "{u1c9a}", "{u1c9b}", "{u1c9c}", "{u1c9d}",
      "{u1c9e}", "{u1c9f}", "{u1ca0}", "{u1ca1}", "{u1ca2}", "{u1ca3}",
      "{u1ca4}", "{u1ca5}", "{u1ca6}", "{u1ca7}", "{u1ca8}", "{u1ca9}",
      "{u1caa}", "{u1cab}", "{u1cac}", "{u1cad}", "{u1cae}", "{u1caf}",
      "{u1cb0}", "{u1cb1}", "{u1cb2}", "{u1cb3}", "{u1cb4}", "{u1cb5}",
      "{u1cb6}", "{u1cb7}", "{u1cb8}", "{u1cb9}", "{u1cba}", "{u1cbd}",
      "{u1cbe}", "{u1cbf}", "{u1e00}", "{u1e02}", "{u1e04}", "{u1e06}",
      "{u1e08}", "{u1e0a}", "{u1e0c}", "{u1e0e}", "{u1e10}", "{u1e12}",
      "{u1e14}", "{u1e16}", "{u1e18}", "{u1e1a}", "{u1e1c}", "{u1e1e}",
      "{u1e20}", "{u1e22}", "{u1e24}", "{u1e26}", "{u1e28}", "{u1e2a}",
      "{u1e2c}", "{u1e2e}", "{u1e30}", "{u1e32}", "{u1e34}", "{u1e36}",
      "{u1e38}", "{u1e3a}", "{u1e3c}", "{u1e3e}", "{u1e40}", "{u1e42}",
      "{u1e44}", "{u1e46}", "{u1e48}", "{u1e4a}", "{u1e4c}", "{u1e4e}",
      "{u1e50}", "{u1e52}", "{u1e54}", "{u1e56}", "{u1e58}", "{u1e5a}",
      "{u1e5c}", "{u1e5e}", "{u1e60}", "{u1e62}", "{u1e64}", "{u1e66}",
      "{u1e68}", "{u1e6a}", "{u1e6c}", "{u1e6e}", "{u1e70}", "{u1e72}",
      "{u1e74}", "{u1e76}", "{u1e78}", "{u1e7a}", "{u1e7c}", "{u1e7e}",
      "{u1e80}", "{u1e82}", "{u1e84}", "{u1e86}", "{u1e88}", "{u1e8a}",
      "{u1e8c}", "{u1e8e}", "{u1e90}", "{u1e92}", "{u1e94}", "{u1e9e}",
      "{u1ea0}", "{u1ea2}", "{u1ea4}", "{u1ea6}", "{u1ea8}", "{u1eaa}",
      "{u1eac}", "{u1eae}", "{u1eb0}", "{u1eb2}", "{u1eb4}", "{u1eb6}",
      "{u1eb8}", "{u1eba}", "{u1ebc}", "{u1ebe}", "{u1ec0}", "{u1ec2}",
      "{u1ec4}", "{u1ec6}", "{u1ec8}", "{u1eca}", "{u1ecc}", "{u1ece}",
      "{u1ed0}", "{u1ed2}", "{u1ed4}", "{u1ed6}", "{u1ed8}", "{u1eda}",
      "{u1edc}", "{u1ede}", "{u1ee0}", "{u1ee2}", "{u1ee4}", "{u1ee6}",
      "{u1ee8}", "{u1eea}", "{u1eec}", "{u1eee}", "{u1ef0}", "{u1ef2}",
      "{u1ef4}", "{u1ef6}", "{u1ef8}", "{u1efa}", "{u1efc}", "{u1efe}",
      "{u1f08}", "{u1f09}", "{u1f0a}", "{u1f0b}", "{u1f0c}", "{u1f0d}",
      "{u1f0e}", "{u1f0f}", "{u1f18}", "{u1f19}", "{u1f1a}", "{u1f1b}",
      "{u1f1c}", "{u1f1d}", "{u1f28}", "{u1f29}", "{u1f2a}", "{u1f2b}",
      "{u1f2c}", "{u1f2d}", "{u1f2e}", "{u1f2f}", "{u1f38}", "{u1f39}",
      "{u1f3a}", "{u1f3b}", "{u1f3c}", "{u1f3d}", "{u1f3e}", "{u1f3f}",
      "{u1f48}", "{u1f49}", "{u1f4a}", "{u1f4b}", "{u1f4c}", "{u1f4d}",
      "{u1f59}", "{u1f5b}", "{u1f5d}", "{u1f5f}", "{u1f68}", "{u1f69}",
      "{u1f6a}", "{u1f6b}", "{u1f6c}", "{u1f6d}", "{u1f6e}", "{u1f6f}",
      "{u1f88}", "{u1f89}", "{u1f8a}", "{u1f8b}", "{u1f8c}", "{u1f8d}",
      "{u1f8e}", "{u1f8f}", "{u1f98}", "{u1f99}", "{u1f9a}", "{u1f9b}",
      "{u1f9c}", "{u1f9d}", "{u1f9e}", "{u1f9f}", "{u1fa8}", "{u1fa9}",
      "{u1faa}", "{u1fab}", "{u1fac}", "{u1fad}", "{u1fae}", "{u1faf}",
      "{u1fb8}", "{u1fb9}", "{u1fba}", "{u1fbb}", "{u1fbc}", "{u1fc8}",
      "{u1fc9}", "{u1fca}", "{u1fcb}", "{u1fcc}", "{u1fd8}", "{u1fd9}",
      "{u1fda}", "{u1fdb}", "{u1fe8}", "{u1fe9}", "{u1fea}", "{u1feb}",
      "{u1fec}", "{u1ff8}", "{u1ff9}", "{u1ffa}", "{u1ffb}", "{u1ffc}",
      "{u2126}", "{u212a}", "{u212b}", "{u2132}", "{u2160}", "{u2161}",
      "{u2162}", "{u2163}", "{u2164}", "{u2165}", "{u2166}", "{u2167}",
      "{u2168}", "{u2169}", "{u216a}", "{u216b}", "{u216c}", "{u216d}",
      "{u216e}", "{u216f}", "{u2183}", "{u24b6}", "{u24b7}", "{u24b8}",
      "{u24b9}", "{u24ba}", "{u24bb}", "{u24bc}", "{u24bd}", "{u24be}",
      "{u24bf}", "{u24c0}", "{u24c1}", "{u24c2}", "{u24c3}", "{u24c4}",
      "{u24c5}", "{u24c6}", "{u24c7}", "{u24c8}", "{u24c9}", "{u24ca}",
      "{u24cb}", "{u24cc}", "{u24cd}", "{u24ce}", "{u24cf}", "{u2c00}",
      "{u2c01}", "{u2c02}", "{u2c03}", "{u2c04}", "{u2c05}", "{u2c06}",
      "{u2c07}", "{u2c08}", "{u2c09}", "{u2c0a}", "{u2c0b}", "{u2c0c}",
      "{u2c0d}", "{u2c0e}", "{u2c0f}", "{u2c10}", "{u2c11}", "{u2c12}",
      "{u2c13}", "{u2c14}", "{u2c15}", "{u2c16}", "{u2c17}", "{u2c18}",
      "{u2c19}", "{u2c1a}", "{u2c1b}", "{u2c1c}", "{u2c1d}", "{u2c1e}",
      "{u2c1f}", "{u2c20}", "{u2c21}", "{u2c22}", "{u2c23}", "{u2c24}",
      "{u2c25}", "{u2c26}", "{u2c27}", "{u2c28}", "{u2c29}", "{u2c2a}",
      "{u2c2b}", "{u2c2c}", "{u2c2d}", "{u2c2e}", "{u2c2f}", "{u2c60}",
      "{u2c62}", "{u2c63}", "{u2c64}", "{u2c67}", "{u2c69}", "{u2c6b}",
      "{u2c6d}", "{u2c6e}", "{u2c6f}", "{u2c70}", "{u2c72}", "{u2c75}",
      "{u2c7e}", "{u2c7f}", "{u2c80}", "{u2c82}", "{u2c84}", "{u2c86}",
      "{u2c88}", "{u2c8a}", "{u2c8c}", "{u2c8e}", "{u2c90}", "{u2c92}",
      "{u2c94}", "{u2c96}", "{u2c98}", "{u2c9a}", "{u2c9c}", "{u2c9e}",
      "{u2ca0}", "{u2ca2}", "{u2ca4}", "{u2ca6}", "{u2ca8}", "{u2caa}",
      "{u2cac}", "{u2cae}", "{u2cb0}", "{u2cb2}", "{u2cb4}", "{u2cb6}",
      "{u2cb8}", "{u2cba}", "{u2cbc}", "{u2cbe}", "{u2cc0}", "{u2cc2}",
      "{u2cc4}", "{u2cc6}", "{u2cc8}", "{u2cca}", "{u2ccc}", "{u2cce}",
      "{u2cd0}", "{u2cd2}", "{u2cd4}", "{u2cd6}", "{u2cd8}", "{u2cda}",
      "{u2cdc}", "{u2cde}", "{u2ce0}", "{u2ce2}", "{u2ceb}", "{u2ced}",
      "{u2cf2}", "{ua640}", "{ua642}", "{ua644}", "{ua646}", "{ua648}",
      "{ua64a}", "{ua64c}", "{ua64e}", "{ua650}", "{ua652}", "{ua654}",
      "{ua656}", "{ua658}", "{ua65a}", "{ua65c}", "{ua65e}", "{ua660}",
      "{ua662}", "{ua664}", "{ua666}", "{ua668}", "{ua66a}", "{ua66c}",
      "{ua680}", "{ua682}", "{ua684}", "{ua686}", "{ua688}", "{ua68a}",
      "{ua68c}", "{ua68e}", "{ua690}", "{ua692}", "{ua694}", "{ua696}",
      "{ua698}", "{ua69a}", "{ua722}", "{ua724}", "{ua726}", "{ua728}",
      "{ua72a}", "{ua72c}", "{ua72e}", "{ua732}", "{ua734}", "{ua736}",
      "{ua738}", "{ua73a}", "{ua73c}", "{ua73e}", "{ua740}", "{ua742}",
      "{ua744}", "{ua746}", "{ua748}", "{ua74a}", "{ua74c}", "{ua74e}",
      "{ua750}", "{ua752}", "{ua754}", "{ua756}", "{ua758}", "{ua75a}",
      "{ua75c}", "{ua75e}", "{ua760}", "{ua762}", "{ua764}", "{ua766}",
      "{ua768}", "{ua76a}", "{ua76c}", "{ua76e}", "{ua779}", "{ua77b}",
      "{ua77d}", "{ua77e}", "{ua780}", "{ua782}", "{ua784}", "{ua786}",
      "{ua78b}", "{ua78d}", "{ua790}", "{ua792}", "{ua796}", "{ua798}",
      "{ua79a}", "{ua79c}", "{ua79e}", "{ua7a0}", "{ua7a2}", "{ua7a4}",
      "{ua7a6}", "{ua7a8}", "{ua7aa}", "{ua7ab}", "{ua7ac}", "{ua7ad}",
      "{ua7ae}", "{ua7b0}", "{ua7b1}", "{ua7b2}", "{ua7b3}", "{ua7b4}",
      "{ua7b6}", "{ua7b8}", "{ua7ba}", "{ua7bc}", "{ua7be}", "{ua7c0}",
      "{ua7c2}", "{ua7c4}", "{ua7c5}", "{ua7c6}", "{ua7c7}", "{ua7c9}",
      "{ua7d0}", "{ua7d6}", "{ua7d8}", "{ua7f5}", "{uff21}", "{uff22}",
      "{uff23}", "{uff24}", "{uff25}", "{uff26}", "{uff27}", "{uff28}",
      "{uff29}", "{uff2a}", "{uff2b}", "{uff2c}", "{uff2d}", "{uff2e}",
      "{uff2f}", "{uff30}", "{uff31}", "{uff32}", "{uff33}", "{uff34}",
      "{uff35}", "{uff36}", "{uff37}", "{uff38}", "{uff39}", "{uff3a}",
      "{u1c89}", "{ua7cb}", "{ua7cc}", "{ua7da}", "{ua7dc}">>
LowerCase ==
    <<"a", "b", "c", "d", "e", "f", "g", "h", "i", "j", "k", "l", "m", "n",
      "o", "p", "q", "r", "s", "t", "u", "v", "w", "x", "y", "z", "{ue0}",
      "{ue1}", "{ue2}", "{ue3}", "{ue4}", "{ue5}", "{ue6}", "{ue7}", "{ue8}",
      "{ue9}", "{uea}", "{ueb}", "{uec}", "{ued}", "{uee}", "{uef}", "{uf0}",
      "{uf1}", "{uf2}", "{uf3}", "{uf4}", "{uf5}", "{uf6}", "{uf8}", "{uf9}",
      "{ufa}", "{ufb}", "{ufc}", "{ufd}", "{ufe}", "{u101}", "{u103}",
      "{u105}", "{u107}", "{u109}", "{u10b}", "{u10d}", "{u10f}", "{u111}",
      "{u113}", "{u115}", "{u117}", "{u119}", "{u11b}", "{u11d}", "{u11f}",
      "{u121}", "{u123}", "{u125}", "{u127}", "{u129}", "{u12b}", "{u12d}",
      "{u12f}", "i{u307}", "{u133}", "{u135}", "{u137}", "{u13a}", "{u13c}",
      "{u13e}", "{u140}", "{u142}", "{u144}", "{u146}", "{u148}", "{u14b}",
      "{u14d}", "{u14f}", "{u151}", "{u153}", "{u155}", "{u157}", "{u159}",
      "{u15b}", "{u15d}", "{u15f}", "{u161}", "{u163}", "{u165}", "{u167}",
      "{u169}", "{u16b}", "{u16d}", "{u16f}", "{u171}", "{u173}", "{u175}",
      "{u177}", "{uff}", "{u17a}", "{u17c}", "{u17e}", "{u253}", "{u183}",
      "{u185}", "{u254}", "{u188}", "{u256}", "{u257}", "{u18c}", "{u1dd}",
      "{u259}", "{u25b}", "{u192}", "{u260}", "{u263}", "{u269}", "{u268}",
      "{u199}", "{u26f}", "{u272}", "{u275}", "{u1a1}", "{u1a3}", "{u1a5}",
      "{u280}", "{u1a8}", "{u283}", "{u1ad}", "{u288}", "{u1b0}", "{u28a}",
      "{u28b}", "{u1b4}", "{u1b6}", "{u292}", "{u1b9}", "{u1bd}", "{u1c6}",
      "{u1c6}", "{u1c9}", "{u1c9}", "{u1cc}", "{u1cc}", "{u1ce}", "{u1d0}",
      "{u1d2}", "{u1d4}", "{u1d6}", "{u1d8}", "{u1da}", "{u1dc}", "{u1df}",
      "{u1e1}", "{u1e3}", "{u1e5}", "{u1e7}", "{u1e9}", "{u1eb}", "{u1ed}",
      "{u1ef}", "{u1f3}", "{u1f3}", "{u1f5}", "{u195}", "{u1bf}", "{u1f9}",
      "{u1fb}", "{u1fd}", "{u1ff}", "{u201}", "{u203}", "{u205}", "{u207}",
      "{u209}", "{u20b}", "{u20d}", "{u20f}", "{u211}", "{u213}", "{u215}",
      "{u217}", "{u219}", "{u21b}", "{u21d}", "{u21f}", "{u19e}", "{u223}",
      "{u225}", "{u227}", "{u229}", "{u22b}", "{u22d}", "{u22f}", "{u231}",
      "{u233}", "{u2c65}", "{u23c}", "{u19a}", "{u2c66}", "{u242}", "{u180}",
      "{u289}", "{u28c}", "{u247}", "{u249}", "{u24b}", "{u24d}", "{u24f}",
      "{u371}", "{u373}", "{u377}", "{u3f3}", "{u3ac}", "{u3ad}", "{u3ae}",
      "{u3af}", "{u3cc}", "{u3cd}", "{u3ce}", "{u3b1}", "{u3b2}", "{u3b3}",
      "{u3b4}", "{u3b5}", "{u3b6}", "{u3b7}", "{u3b8}", "{u3b9}", "{u3ba}",
      "{u3bb}", "{u3bc}", "{u3bd}", "{u3be}", "{u3bf}", "{u3c0}", "{u3c1}",
      "{u3c3}", "{u3c4}", "{u3c5}", "{u3c6}", "{u3c7}", "{u3c8}", "{u3c9}",
      "{u3ca}", "{u3cb}", "{u3d7}", "{u3d9}", "{u3db}", "{u3dd}", "{u3df}",
      "{u3e1}", "{u3e3}", "{u3e5}", "{u3e7}", "{u3e9}", "{u3eb}", "{u3ed}",
      "{u3ef}", "{u3b8}", "{u3f8}", "{u3f2}", "{u3fb}", "{u37b}", "{u37c}",
      "{u37d}", "{u450}", "{u451}", "{u452}", "{u453}", "{u454}", "{u455}",
      "{u456}", "{u457}", "{u458}", "{u459}", "{u45a}", "{u45b}", "{u45c}",
      "{u45d}", "{u45e}", "{u45f}", "{u430}", "{u431}", "{u432}", "{u433}",
      "{u434}", "{u435}", "{u436}", "{u437}", "{u438}", "{u439}", "{u43a}",
      "{u43b}", "{u43c}", "{u43d}", "{u43e}", "{u43f}", "{u440}", "{u441}",
      "{u442}", "{u443}", "{u444}", "{u445}", "{u446}", "{u447}", "{u448}",
      "{u449}", "{u44a}", "{u44b}", "{u44c}", "{u44d}", "{u44e}", "{u44f}",
      "{u461}", "{u463}", "{u465}", "{u467}", "{u469}", "{u46b}", "{u46d}",
      "{u46f}", "{u471}", "{u473}", "{u475}", "{u477}", "{u479}", "{u47b}",
      "{u47d}", "{u47f}", "{u481}", "{u48b}", "{u48d}", "{u48f}", "{u491}",
      "{u493}", "{u495}", "{u497}", "{u499}", "{u49b}", "{u49d}", "{u49f}",
      "{u4a1}", "{u4a3}", "{u4a5}", "{u4a7}", "{u4a9}", "{u4ab}", "{u4ad}",
      "{u4af}", "{u4b1}", "{u4b3}", "{u4b5}", "{u4b7}", "{u4b9}", "{u4bb}",
      "{u4bd}", "{u4bf}", "{u4cf}", "{u4c2}", "{u4c4}", "{u4c6}", "{u4c8}",
      "{u4ca}", "{u4cc}", "{u4ce}", "{u4d1}", "{u4d3}", "{u4d5}", "{u4d7}",
      "{u4d9}", "{u4db}", "{u4dd}", "{u4df}", "{u4e1}", "{u4e3}", "{u4e5}",
      "{u4e7}", "{u4e9}", "{u4eb}", "{u4ed}", "{u4ef}", "{u4f1}", "{u4f3}",
      "{u4f5}", "{u4f7}", "{u4f9}", "{u4fb}", "{u4fd}", "{u4ff}", "{u501}",
      "{u503}", "{u505}", "{u507}", "{u509}", "{u50b}", "{u50d}", "{u50f}",
      "{u511}", "{u513}", "{u515}", "{u517}", "{u519}", "{u51b}", "{u51d}",
      "{u51f}", "{u521}", "{u523}", "{u525}", "{u527}", "{u529}", "{u52b}",
      "{u52d}", "{u52f}", "{u561}", "{u562}", "{u563}", "{u564}", "{u565}",
      "{u566}", "{u567}", "{u568}", "{u569}", "{u56a}", "{u56b}", "{u56c}",
      "{u56d}", "{u56e}", "{u56f}", "{u570}", "{u571}", "{u572}", "{u573}",
      "{u574}", "{u575}", "{u576}", "{u577}", "{u578}", "{u579}", "{u57a}",
      "{u57b}", "{u57c}", "{u57d}", "{u57e}", "{u57f}", "{u580}", "{u581}",
      "{u582}", "{u583}", "{u584}", "{u585}", "{u586}", "{u2d00}", "{u2d01}",
      "{u2d02}", "{u2d03}", "{u2d04}", "{u2d05}", "{u2d06}", "{u2d07}",
      "{u2d08}", "{u2d09}", "{u2d0a}", "{u2d0b}", "{u2d0c}", "{u2d0d}",
      "{u2d0e}", "{u2d0f}", "{u2d10}", "{u2d11}", "{u2d12}", "{u2d13}",
      "{u2d14}", "{u2d15}", "{u2d16}", "{u2d17}", "{u2d18}", "{u2d19}",
      "{u2d1a}", "{u2d1b}", "{u2d1c}", "{u2d1d}", "{u2d1e}", "{u2d1f}",
      "{u2d20}", "{u2d21}", "{u2d22}", "{u2d23}", "{u2d24}", "{u2d25}",
      "{u2d27}", "{u2d2d}", "{uab70}", "{uab71}", "{uab72}", "{uab73}",
      "{uab74}", "{uab75}", "{uab76}", "{uab77}", "{uab78}", "{uab79}",
      "{uab7a}", "{uab7b}", "{uab7c}", "{uab7d}", "{uab7e}", "{uab7f}",
      "{uab80}", "{uab81}", "{uab82}", "{uab83}", "{uab84}", "{uab85}",
      "{uab86}", "{uab87}", "{uab88}", "{uab89}", "{uab8a}", "{uab8b}",
      "{uab8c}", "{uab8d}", "{uab8e}", "{uab8f}", "{uab90}", "{uab91}",
      "{uab92}", "{uab93}", "{uab94}", "{uab95}", "{uab96}", "{uab97}",
      "{uab98}", "{uab99}", "{uab9a}", "{uab9b}", "{uab9c}", "{uab9d}",
      "{uab9e}", "{uab9f}", "{uaba0}", "{uaba1}", "{uaba2}", "{uaba3}",
      "{uaba4}", "{uaba5}", "{uaba6}", "{uaba7}", "{uaba8}", "{uaba9}",
      "{uabaa}", "{uabab}", "{uabac}", "{uabad}", "{uabae}", "{uabaf}",
      "{uabb0}", "{uabb1}", "{uabb2}", "{uabb3}", "{uabb4}", "{uabb5}",
      "{uabb6}", "{uabb7}", "{uabb8}", "{uabb9}", "{uabba}", "{uabbb}",
      "{uabbc}", "{uabbd}", "{uabbe}", "{uabbf}", "{u13f8}", "{u13f9}",
      "{u13fa}", "{u13fb}", "{u13fc}", "{u13fd}", "{u10d0}", "{u10d1}",
      "{u10d2}", "{u10d3}", "{u10d4}", "{u10d5}", "{u10d6}", "{u10d7}",
      "{u10d8}", "{u10d9}", "{u10da}", "{u10db}", "{u10dc}", "{u10dd}",
      "{u10de}", "{u10df}", "{u10e0}", "{u10e1}", "{u10e2}", "{u10e3}",
      "{u10e4}", "{u10e5}", "{u10e6}", "{u10e7}", "{u10e8}", "{u10e9}",
      "{u10ea}", "{u10eb}", "{u10ec}", "{u10ed}", "{u10ee}", "{u10ef}",
      "{u10f0}", "{u10f1}", "{u10f2}", "{u10f3}", "{u10f4}", "{u10f5}",
      "{u10f6}", "{u10f7}", "{u10f8}", "{u10f9}", "{u10fa}", "{u10fd}",
      "{u10fe}", "{u10ff}", "{u1e01}", "{u1e03}", "{u1e05}", "{u1e07}",
      "{u1e09}", "{u1e0b}", "{u1e0d}", "{u1e0f}", "{u1e11}", "{u1e13}",
      "{u1e15}", "{u1e17}", "{u1e19}", "{u1e1b}", "{u1e1d}", "{u1e1f}",
      "{u1e21}", "{u1e23}", "{u1e25}", "{u1e27}", "{u1e29}", "{u1e2b}",
      "{u1e2d}", "{u1e2f}", "{u1e31}", "{u1e33}", "{u1e35}", "{u1e37}",
      "{u1e39}", "{u1e3b}", "{u1e3d}", "{u1e3f}", "{u1e41}", "{u1e43}",
      "{u1e45}", "{u1e47}", "{u1e49}", "{u1e4b}", "{u1e4d}", "{u1e4f}",
      "{u1e51}", "{u1e53}", "{u1e55}", "{u1e57}", "{u1e59}", "{u1e5b}",
      "{u1e5d}", "{u1e5f}", "{u1e61}", "{u1e63}", "{u1e65}", "{u1e67}",
      "{u1e69}", "{u1e6b}", "{u1e6d}", "{u1e6f}", "{u1e71}", "{u1e73}",
      "{u1e75}", "{u1e77}", "{u1e79}", "{u1e7b}", "{u1e7d}", "{u1e7f}",
      "{u1e81}", "{u1e83}", "{u1e85}", "{u1e87}", "{u1e89}", "{u1e8b}",
      "{u1e8d}", "{u1e8f}", "{u1e91}", "{u1e93}", "{u1e95}", "{udf}",
      "{u1ea1}", "{u1ea3}", "{u1ea5}", "{u1ea7}", "{u1ea9}", "{u1eab}",
      "{u1ead}", "{u1eaf}", "{u1eb1}", "{u1eb3}", "{u1eb5}", "{u1eb7}",
      "{u1eb9}", "{u1ebb}", "{u1ebd}", "{u1ebf}", "{u1ec1}", "{u1ec3}",
      "{u1ec5}", "{u1ec7}", "{u1ec9}", "{u1ecb}", "{u1ecd}", "{u1ecf}",
      "{u1ed1}", "{u1ed3}", "{u1ed5}", "{u1ed7}", "{u1ed9}", "{u1edb}",
      "{u1edd}", "{u1edf}", "{u1ee1}", "{u1ee3}", "{u1ee5}", "{u1ee7}",
      "{u1ee9}", "{u1eeb}", "{u1eed}", "{u1eef}", "{u1ef1}", "{u1ef3}",
      "{u1ef5}", "{u1ef7}", "{u1ef9}", "{u1efb}", "{u1efd}", "{u1eff}",
      "{u1f00}", "{u1f01}", "{u1f02}", "{u1f03}", "{u1f04}", "{u1f05}",
      "{u1f06}", "{u1f07}", "{u1f10}", "{u1f11}", "{u1f12}", "{u1f13}",
      "{u1f14}", "{u1f15}", "{u1f20}", "{u1f21}", "{u1f22}", "{u1f23}",
      "{u1f24}", "{u1f25}", "{u1f26}", "{u1f27}", "{u1f30}", "{u1f31}",
      "{u1f32}", "{u1f33}", "{u1f34}", "{u1f35}", "{u1f36}", "{u1f37}",
      "{u1f40}", "{u1f41}", "{u1f42}", "{u1f43}", "{u1f44}", "{u1f45}",
      "{u1f51}", "{u1f53}", "{u1f55}", "{u1f57}", "{u1f60}", "{u1f61}",
      "{u1f62}", "{u1f63}", "{u1f64}", "{u1f65}", "{u1f66}", "{u1f67}",
      "{u1f80}", "{u1f81}", "{u1f82}", "{u1f83}", "{u1f84}", "{u1f85}",
      "{u1f86}", "{u1f87}", "{u1f90}", "{u1f91}", "{u1f92}", "{u1f93}",
      "{u1f94}", "{u1f95}", "{u1f96}", "{u1f97}", "{u1fa0}", "{u1fa1}",
      "{u1fa2}", "{u1fa3}", "{u1fa4}", "{u1fa5}", "{u1fa6}", "{u1fa7}",
      "{u1fb0}", "{u1fb1}", "{u1f70}", "{u1f71}", "{u1fb3}", "{u1f72}",
      "{u1f73}", "{u1f74}", "{u1f75}", "{u1fc3}", "{u1fd0}", "{u1fd1}",
      "{u1f76}", "{u1f77}", "{u1fe0}", "{u1fe1}", "{u1f7a}", "{u1f7b}",
      "{u1fe5}", "{u1f78}", "{u1f79}", "{u1f7c}", "{u1f7d}", "{u1ff3}",
      "{u3c9}", "k", "{ue5}", "{u214e}", "{u2170}", "{u2171}", "{u2172}",
      "{u2173}", "{u2174}", "{u2175}", "{u2176}", "{u2177}", "{u2178}",
      "{u2179}", "{u217a}", "{u217b}", "{u217c}", "{u217d}", "{u217e}",
      "{u217f}", "{u2184}", "{u24d0}", "{u24d1}", "{u24d2}", "{u24d3}",
      "{u24d4}", "{u24d5}", "{u24d6}", "{u24d7}", "{u24d8}", "{u24d9}",
      "{u24da}", "{u24db}", "{u24dc}", "{u24dd}", "{u24de}", "{u24df}",
      "{u24e0}", "{u24e1}", "{u24e2}", "{u24e3}", "{u24e4}", "{u24e5}",
      "{u24e6}", "{u24e7}", "{u24e8}", "{u24e9}", "{u2c30}", "{u2c31}",
      "{u2c32}", "{u2c33}", "{u2c34}", "{u2c35}", "{u2c36}", "{u2c37}",
      "{u2c38}", "{u2c39}", "{u2c3a}", "{u2c3b}", "{u2c3c}", "{u2c3d}",
      "{u2c3e}", "{u2c3f}", "{u2c40}", "{u2c41}", "{u2c42}", "{u2c43}",
      "{u2c44}", "{u2c45}", "{u2c46}", "{u2c47}", "{u2c48}", "{u2c49}",
      "{u2c4a}", "{u2c4b}", "{u2c4c}", "{u2c4d}", "{u2c4e}", "{u2c4f}",
      "{u2c50}", "{u2c51}", "{u2c52}", "{u2c53}", "{u2c54}", "{u2c55}",
      "{u2c56}", "{u2c57}", "{u2c58}", "{u2c59}", "{u2c5a}", "{u2c5b}",
      "{u2c5c}", "{u2c5d}", "{u2c5e}", "{u2c5f}", "{u2c61}", "{u26b}",
      "{u1d7d}", "{u27d}", "{u2c68}", "{u2c6a}", "{u2c6c}", "{u251}",
      "{u271}", "{u250}", "{u252}", "{u2c73}", "{u2c76}", "{u23f}", "{u240}",
      "{u2c81}", "{u2c83}", "{u2c85}", "{u2c87}", "{u2c89}", "{u2c8b}",
      "{u2c8d}", "{u2c8f}", "{u2c91}", "{u2c93}", "{u2c95}", "{u2c97}",
      "{u2c99}", "{u2c9b}", "{u2c9d}", "{u2c9f}", "{u2ca1}", "{u2ca3}",
      "{u2ca5}", "{u2ca7}", "{u2ca9}", "{u2cab}", "{u2cad}", "{u2caf}",
      "{u2cb1}", "{u2cb3}", "{u2cb5}", "{u2cb7}", "{u2cb9}", "{u2cbb}",
      "{u2cbd}", "{u2cbf}", "{u2cc1}", "{u2cc3}", "{u2cc5}", "{u2cc7}",
      "{u2cc9}", "{u2ccb}", "{u2ccd}", "{u2ccf}", "{u2cd1}", "{u2cd3}",
      "{u2cd5}", "{u2cd7}", "{u2cd9}", "{u2cdb}", "{u2cdd}", "{u2cdf}",
      "{u2ce1}", "{u2ce3}", "{u2cec}", "{u2cee}", "{u2cf3}", "{ua641}",
      "{ua643}", "{ua645}", "{ua647}", "{ua649}", "{ua64b}", "{ua64d}",
      "{ua64f}", "{ua651}", "{ua653}", "{ua655}", "{ua657}", "{ua659}",
      "{ua65b}", "{ua65d}", "{ua65f}", "{ua661}", "{ua663}", "{ua665}",
      "{ua667}", "{ua669}", "{ua66b}", "{ua66d}", "{ua681}", "{ua683}",
      "{ua685}", "{ua687}", "{ua689}", "{ua68b}", "{ua68d}", "{ua68f}",
      "{ua691}", "{ua693}", "{ua695}", "{ua697}", "{ua699}", "{ua69b}",
      "{ua723}", "{ua725}", "{ua727}", "{ua729}", "{ua72b}", "{ua72d}",
      "{ua72f}", "{ua733}", "{ua735}", "{ua737}", "{ua739}", "{ua73b}",
      "{ua73d}", "{ua73f}", "{ua741}", "{ua743}", "{ua745}", "{ua747}",
      "{ua749}", "{ua74b}", "{ua74d}", "{ua74f}", "{ua751}", "{ua753}",
      "{ua755}", "{ua757}", "{ua759}", "{ua75b}", "{ua75d}", "{ua75f}",
      "{ua761}", "{ua763}", "{ua765}", "{ua767}", "{ua769}", "{ua76b}",
      "{ua76d}", "{ua76f}", "{ua77a}", "{ua77c}", "{u1d79}", "{ua77f}",
      "{ua781}", "{ua783}", "{ua785}", "{ua787}", "{ua78c}", "{u265}",
      "{ua791}", "{ua793}", "{ua797}", "{ua799}", "{ua79b}", "{ua79d}",
      "{ua79f}", "{ua7a1}", "{ua7a3}", "{ua7a5}", "{ua7a7}", "{ua7a9}",
      "{u266}", "{u25c}", "{u261}", "{u26c}", "{u26a}", "{u29e}", "{u287}",
      "{u29d}", "{uab53}", "{ua7b5}", "{ua7b7}", "{ua7b9}", "{ua7bb}",
      "{ua7bd}", "{ua7bf}", "{ua7c1}", "{ua7c3}", "{ua794}", "{u282}",
      "{u1d8e}", "{ua7c8}", "{ua7ca}", "{ua7d1}", "{ua7d7}", "{ua7d9}",
      "{ua7f6}", "{uff41}", "{uff42}", "{uff43}", "{uff44}", "{uff45}",
      "{uff46}", "{uff47}", "{uff48}", "{uff49}", "{uff4a}", "{uff4b}",
      "{uff4c}", "{uff4d}", "{uff4e}", "{uff4f}", "{uff50}", "{uff51}",
      "{uff52}", "{uff53}", "{uff54}", "{uff55}", "{uff56}", "{uff57}",
      "{uff58}", "{uff59}", "{uff5a}",
      "{u1c8a}", "{u264}", "{ua7cd}", "{ua7db}", "{u19b}">>
LowerCaseOf ==
    [c \in {UpperCase[i] : i \in 1..Len(UpperCase)} |->
        LowerCase[CHOOSE i \in 1..Len(UpperCase) : UpperCase[i] = c]]

\* The tables are those of the engine the program runs on.  Unicode 17 gave
\* three more units a lower case: an engine with its tables lower-cases
\* them, one with the tables of Unicode 16 leaves them as they are.
UnicodeVersions == {16, 17}
LowerCaseOf17 ==
    ("{ua7ce}" :> "{ua7cf}") @@ ("{ua7d2}" :> "{ua7d3}")
    @@ ("{ua7d4}" :> "{ua7d5}")

toLowerCase(c, version) ==
    IF c \in DOMAIN LowerCaseOf THEN LowerCaseOf[c]
    ELSE IF version >= 17 /\ c \in DOMAIN LowerCaseOf17 THEN LowerCaseOf17[c]
    ELSE c

\* the loop of setCandidateKeys: the lower-cased characters, each once, in
\* the order of their first occurrence
RECURSIVE CandidateKeyList(_, _, _, _)
CandidateKeyList(keys, i, list, version) ==
    IF i > Len(keys) THEN list
    ELSE LET c == toLowerCase(keys[i], version)
         IN  CandidateKeyList(keys, i + 1,
                              IF Includes(list, c) THEN list
                              ELSE Append(list, c),
                              version)

SetCandidateKeysWithoutMaximum(candidateKeys, keys, version) ==
    LET list == CandidateKeyList(IF keys = Undefined
                                 THEN DefaultCandidateKeys ELSE keys,
                                 1, <<>>, version)
    IN  IF Len(list) < 4 THEN candidateKeys
        ELSE list

\* InputController.setCandidateKeys(keys): the new candidateKeys_, on an
\* engine with the tables of the given version
SetCandidateKeys(candidateKeys, keys, version) ==
    LET list == CandidateKeyList(IF keys = Undefined
                                 THEN DefaultCandidateKeys ELSE keys,
                                 1, <<>>, version)
    IN  IF Len(list) < 4 THEN candidateKeys
        ELSE IF Len(list) > 15 THEN candidateKeys
        ELSE list

setCandidateKeys(inputs) ==
    \E keys \in inputs, version \in UnicodeVersions :
        /\ candidateKeys_' = SetCandidateKeys(candidateKeys_, keys, version)
        /\ call' = [NoCall EXCEPT !.op = "setCandidateKeys"]
                    @@ [keys |-> keys, version |-> version]
        /\ UNCHANGED <<keyHandler_, lm_, state_, candidateController_,
                       useVerticalCandidates_>>

\* InputController.setUserPhrases(map)
setUserPhrases(maps) ==
    \E map \in maps :
        /\ lm_' = UserPhrasesSetUserPhrases(lm_, map)
        /\ call' = [NoCall EXCEPT !.op = "setUserPhrases"] @@ [map |-> map]
        /\ UNCHANGED <<keyHandler_, state_, candidateKeys_,
                       candidateController_, useVerticalCandidates_>>

\* InputController.setChineseConversionEnabled
setChineseConversionEnabled ==
    \E flag \in BOOLEAN :
        /\ lm_' = SetChineseConversionEnabled(lm_, flag)
        /\ call' = [NoCall EXCEPT !.op = "setChineseConversionEnabled"]
        /\ UNCHANGED <<keyHandler_, state_, candidateKeys_, candidateController_,
                     useVerticalCandidates_>>

-----------------------------------------------------------------------------
(* Specification Spec: the keys that type, move the cursor, mark, delete   *)
(* and cancel, on a short grid.  The override                              *)
(* model observes nothing and no phrase is added, so a candidate can be    *)
(* selected only if its score is not above kNoOverrideThreshold.           *)

Keys ==
    {KeyU, Key3, KeyComma, KeyUpperA, KeySpace, KeyShiftSpace, KeyLeft,
     KeyShiftLeft, KeyShiftRight, KeyDown, KeyBackspace, KeyEsc}

KeyEvent == mcbopomofoKeyEvent(Keys, Bounds(MaxWidth, 0, 0))
CandidateSelected ==
    handleCandidateKeyEventSelected(
        SelectingKeys, Bounds(MaxWidth, 0, 0))
CandidatePanelCancelled == handleCandidateKeyEventCancelled(CancellingKeys)

Next == KeyEvent \/ CandidateSelected \/ CandidatePanelCancelled \/ Reset

Spec == Init /\ [][Next]_vars

-----------------------------------------------------------------------------
(* Specification SpecEvict: the composing buffer fills up, and its size    *)
(* is set while it is in use.                                              *)

EvictKeys == {KeyU, Key3, KeyLeft}
EvictSizes == {kMinComposingBufferSize, kComposingBufferSize}

EvictKeyEvent == mcbopomofoKeyEvent(EvictKeys, Bounds(MaxEvictWidth, 0, 0))
EvictSetSize == setComposingBufferSize(EvictSizes)

NextEvict == EvictKeyEvent \/ EvictSetSize

SpecEvict == Init /\ [][NextEvict]_vars

-----------------------------------------------------------------------------
(* Specification SpecSelect: candidates are selected and the override      *)
(* model observes them.                                                    *)

SelectKeys == {KeyU, Key3, KeySpace}

SelectKeyEvent ==
    mcbopomofoKeyEvent(SelectKeys, Bounds(MaxSelectWidth, MaxObservations, 0))
SelectCandidateSelected ==
    handleCandidateKeyEventSelected(
        SelectingKeys, Bounds(MaxSelectWidth, MaxObservations, 0))

NextSelect ==
    SelectKeyEvent \/ SelectCandidateSelected \/ CandidatePanelCancelled
    \/ Reset

SpecSelect == Init /\ [][NextSelect]_vars

-----------------------------------------------------------------------------
(* Specification SpecMark: a range of a long grid is marked, and a marked  *)
(* range of a short grid is added as a user phrase.                        *)

MarkKeys == {KeyU, Key3, KeyLeft, KeyShiftLeft}

MarkKeyEvent == mcbopomofoKeyEvent(MarkKeys, Bounds(MaxMarkWidth, 0, 1))
MarkEnter ==
    /\ Len(keyHandler_.builder_.readings_) <= MaxPhraseWidth
    /\ mcbopomofoKeyEvent({KeyEnter}, Bounds(MaxPhraseWidth, 0, 1))

NextMark == MarkKeyEvent \/ MarkEnter

SpecMark == Init /\ [][NextMark]_vars

-----------------------------------------------------------------------------
(* Specification SpecWalk: every operation that changes the grid, on a     *)
(* buffer of the smallest size.                                            *)

WalkKeys == {KeyU, Key3, KeyLeft, KeyDown, KeyBackspace}

WalkKeyEvent == mcbopomofoKeyEvent(WalkKeys, Bounds(MaxWalkWidth, 0, 0))
WalkCandidateSelected ==
    handleCandidateKeyEventSelected(SelectingKeys, Bounds(MaxWalkWidth, 0, 0))
WalkSetSize == setComposingBufferSize({kMinComposingBufferSize})

NextWalk ==
    WalkKeyEvent \/ WalkCandidateSelected \/ CandidatePanelCancelled \/ Reset
    \/ WalkSetSize

SpecWalk == Init /\ [][NextWalk]_vars

-----------------------------------------------------------------------------
(* Specification SpecError: the keys the handler rejects.                  *)

ErrorKeys ==
    {KeyU, Key3, KeyGrave, KeyTab, KeyShift, KeyLeft, KeyShiftLeft, KeyDelete,
     KeyBackspace, KeyEnter, KeyUp, KeySpace}

ErrorKeyEvent == mcbopomofoKeyEvent(ErrorKeys, Bounds(MaxErrorWidth, 0, 0))
ErrorCandidateSelected ==
    handleCandidateKeyEventSelected(SelectingKeys, Bounds(MaxErrorWidth, 0, 0))

NextError == ErrorKeyEvent \/ ErrorCandidateSelected \/ CandidatePanelCancelled

SpecError == Init /\ [][NextError]_vars

(***************************************************************************)
(* Specification SpecConsume: the keys the handler consumes without a new  *)
(* state, upper-case letters included, with both letter modes and with     *)
(* traditional mode switched on and off while the panel is open.           *)
(***************************************************************************)

ConsumeKeys ==
    {KeyU, Key3, KeyGrave, KeyTab, KeyShift, KeyShiftLeft, KeyDelete,
     KeyBackspace, KeyEnter, KeyUpperA, KeyUpperB}

ConsumeKeyEvent ==
    mcbopomofoKeyEvent(ConsumeKeys, Bounds(MaxConsumeWidth, 0, 0))
ConsumeCandidateSelected ==
    handleCandidateKeyEventSelected(
        SelectingKeys, Bounds(MaxConsumeWidth, 0, 0))

NextConsume ==
    ConsumeKeyEvent \/ ConsumeCandidateSelected \/ CandidatePanelCancelled
    \/ setTraditionalMode \/ setLetterMode

SpecConsume == Init /\ [][NextConsume]_vars

-----------------------------------------------------------------------------
(* Specification SpecSize: the composing buffer size is set to any value   *)
(* around its range.                                                       *)

SizeInputs ==
    (kMinComposingBufferSize - SizeMargin)
        ..(kMaxComposingBufferSize + SizeMargin)

SizeSetSize == setComposingBufferSize(SizeInputs)

NextSize == SizeSetSize

SpecSize == Init /\ [][NextSize]_vars

-----------------------------------------------------------------------------
(* Specification SpecMode: traditional mode is switched on and off while   *)
(* a composition is in progress.                                           *)

ModeKeys == {KeyU, Key3, KeySpace, KeyEsc, KeyComma}
ModePanelKeys == {KeyU, KeyComma}

ModeKeyEvent == mcbopomofoKeyEvent(ModeKeys, Bounds(MaxModeWidth, 0, 0))
ModeCandidateSelected ==
    handleCandidateKeyEventSelected(SelectingKeys, Bounds(MaxModeWidth, 0, 0))
ModeCandidateKey ==
    handleCandidateKeyEventOther(ModePanelKeys, Bounds(MaxModeWidth, 0, 0))

NextMode ==
    ModeKeyEvent \/ ModeCandidateSelected \/ CandidatePanelCancelled
    \/ ModeCandidateKey \/ setTraditionalMode \/ setChineseConversionEnabled
    \/ Reset

SpecMode == Init /\ [][NextMode]_vars

-----------------------------------------------------------------------------
(* Specification SpecEnter: the controller enters any state after any      *)
(* state, and is reset.  A Committing state has a text, or the undefined   *)
(* candidate of a panel without candidates.                                *)

BufferChars == {"A", "B"}
Buffers == UNION {[1..n -> BufferChars] : n \in 1..MaxBufferLen}

EnterInputs ==
    {Empty, EmptyIgnoringPrevious}
    \cup {Committing(text) : text \in Buffers \cup {<<>>, Undefined}}
    \cup {[Inputting(buf, Len(buf), <<>>) EXCEPT !.evictedText = evicted] :
              buf \in Buffers, evicted \in {<<>>, <<"A">>}}
    \cup {ChoosingCandidate(buf, Len(buf), <<buf>>) : buf \in Buffers}
    \cup {Marking(buf, Len(buf), <<>>, 0, <<>>, buf, <<>>, <<>>, FALSE) :
              buf \in Buffers}

\* InputController.enterNewState(state); prev: the state it was called in
EnterNewState ==
    \E state \in EnterInputs :
        \E controller \in {enterNewState(
                               Controller(state_, candidateController_),
                               state)} :
            /\ state_' = controller.state_
            /\ candidateController_' = controller.candidateController_
            /\ call' = [NoCall EXCEPT !.op = "enterNewState",
                                      !.commits = controller.commits,
                                      !.thrown = controller.thrown]
                        @@ [prev |-> state_]
            /\ UNCHANGED <<keyHandler_, lm_, candidateKeys_,
                           useVerticalCandidates_>>

NextEnter == EnterNewState \/ Reset

SpecEnter == Init /\ [][NextEnter]_vars

-----------------------------------------------------------------------------
(* Specification SpecCommit: every way to commit text, in both modes,      *)
(* after the override model has observed a selection.                      *)

CommitKeys == {KeyU, KeySpace, KeyShiftSpace, KeyEnter, KeyUpperA}
CommitPanelKeys == {KeyU, KeyComma}

CommitKeyEvent ==
    mcbopomofoKeyEvent(CommitKeys, Bounds(MaxCommitWidth, MaxObservations, 0))
CommitCandidateSelected ==
    handleCandidateKeyEventSelected(
        SelectingKeys, Bounds(MaxCommitWidth, MaxObservations, 0))
CommitCandidateKey ==
    handleCandidateKeyEventOther(
        CommitPanelKeys, Bounds(MaxCommitWidth, MaxObservations, 0))

NextCommit ==
    CommitKeyEvent \/ CommitCandidateSelected \/ CandidatePanelCancelled
    \/ CommitCandidateKey \/ setTraditionalMode \/ Reset

SpecCommit == Init /\ [][NextCommit]_vars

-----------------------------------------------------------------------------
(* Specification SpecPhrase: the language model on its own: phrases are    *)
(* added, the map of user phrases is replaced and unigrams are looked up   *)
(* while Chinese conversion is switched on and off.                        *)

PhraseKeys == {<<"I">>, <<"I", "v">>}

\* the keys looked up: those of the phrases, the space, and two names that
\* a plain object inherits
LookupKeys ==
    {<<"I">>, <<"I", "v">>, <<" ">>,
     <<"_","_","p","r","o","t","o","_","_">>,
     <<"_","_","d","e","f","i","n","e","G","e","t","t","e","r","_","_">>}
PhraseValues == {<<"A">>, <<"B">>, <<"d">>, <<"X">>}

\* no map; an empty map; a map with one phrase; a map whose list holds a
\* phrase twice
PhraseMaps ==
    {NoMap, Map(<<>>), Map(<<"I", "v">> :> << <<"X">> >>),
     Map(<<"I">> :> << <<"A">>, <<"A">> >>)}

\* the phrases stored under key, in the order of the list
UserList(lm, key) ==
    IF key \in DOMAIN lm.userPhrases_ THEN lm.userPhrases_[key] ELSE <<>>

PhraseCount(lm) ==
    Cardinality(UNION {{<<key, i>> : i \in 1..Len(lm.userPhrases_[key])} :
                           key \in DOMAIN lm.userPhrases_})

\* WebLanguageModel.addUserPhrase(key, phrase)
AddUserPhrase ==
    \E key \in PhraseKeys, phrase \in PhraseValues :
        \E lm \in {addUserPhrase(lm_, key, phrase)} :
            /\ PhraseCount(lm) <= MaxUserPhrases
            /\ lm.onPhraseChange <= MaxPhraseChanges
            /\ lm_' = lm
            /\ call' = [NoCall EXCEPT !.op = "addUserPhrase"]
                        @@ [phraseKey |-> key, phrase |-> phrase]
            /\ UNCHANGED <<keyHandler_, state_, candidateKeys_, candidateController_,
                     useVerticalCandidates_>>

\* WebLanguageModel.unigramsForKey(key)
UnigramsForKey ==
    \E key \in LookupKeys :
        /\ call' = [NoCall EXCEPT !.op = "unigramsForKey",
                                  !.thrown = unigramsForKeyThrows(lm_, key)]
                    @@ [phraseKey |-> key,
                        unigrams |-> IF unigramsForKeyThrows(lm_, key) THEN <<>>
                                     ELSE unigramsForKey(lm_, key)]
        /\ UNCHANGED <<keyHandler_, lm_, state_, candidateKeys_, candidateController_,
                     useVerticalCandidates_>>

\* WebLanguageModel.hasUnigramsForKey(key)
HasUnigramsForKey ==
    \E key \in LookupKeys :
        /\ call' = [NoCall EXCEPT !.op = "hasUnigramsForKey",
                                  !.returned = hasUnigramsForKey(lm_, key)]
                    @@ [phraseKey |-> key]
        /\ UNCHANGED <<keyHandler_, lm_, state_, candidateKeys_, candidateController_,
                     useVerticalCandidates_>>

SetUserPhrases == setUserPhrases(PhraseMaps)

NextPhrase ==
    AddUserPhrase \/ SetUserPhrases \/ UnigramsForKey \/ HasUnigramsForKey
    \/ setChineseConversionEnabled

SpecPhrase == Init /\ [][NextPhrase]_vars

-----------------------------------------------------------------------------
(* Specification SpecKeys: setCandidateKeys on strings of every length up  *)
(* to beyond the maximum, with upper-case and repeated characters.         *)

KeysBase ==
    <<"1", "2", "3", "A", "s", "D", "f", "4", "G", "h", "J", "k", "5", "L",
      "q", "W", "e", "6">>
KeysSuffixes == {<<>>, <<"a", "1", "Z", "z">>}

\* strings with units outside ASCII: four accented capitals; a capital and
\* its own lower case; U+0130, whose lower case is two units; U+20000,
\* which charAt takes apart into its two surrogates; capitals of Unicode 16
\* and one of Unicode 17, each with its own lower case
KeysWide ==
    {<<"{uc9}", "{uc8}", "{uc0}", "{ud9}">>,
     <<"{uc9}", "{ue9}", "1", "2">>,
     <<"{u130}", "1", "2", "3">>,
     <<"{ud840}", "{udc00}", "1", "2">>,
     <<"{u1c89}", "{u1c8a}", "1", "2">>,
     <<"{ua7cb}", "{u264}", "1", "2">>,
     <<"{ua7ce}", "{ua7cf}", "1", "2">>}

KeysInputs ==
    {Undefined}
    \cup KeysWide
    \cup {SubSeq(KeysBase, 1, Min(n, Len(KeysBase))) \o suffix :
              n \in 0..MaxKeysLen, suffix \in KeysSuffixes}

SetKeys == setCandidateKeys(KeysInputs)

NextKeys == SetKeys \/ Reset

SpecKeys == Init /\ [][NextKeys]_vars

-----------------------------------------------------------------------------
(* Specification SpecOrderKey: maybeAbsoluteOrderKey on every short key    *)
(* of underscores, hyphens and syllable components, and on the reserved    *)
(* key of the hyphen in the Hsu layout.                                    *)

OrderKeyChars == {"_", "-", "I", "v"}

HsuHyphenKey == kPunctuationKeyPrefix \o <<"H", "s", "u", "_", "-">>

OrderKeys ==
    {HsuHyphenKey}
    \cup UNION {[1..n -> OrderKeyChars] : n \in 1..MaxKeyLen}

\* WebLanguageModel.maybeAbsoluteOrderKey(key)
MaybeAbsoluteOrderKey ==
    \E key \in OrderKeys :
        /\ call' = [NoCall EXCEPT !.op = "maybeAbsoluteOrderKey"]
                    @@ [input |-> key, output |-> maybeAbsoluteOrderKey(key)]
        /\ UNCHANGED <<keyHandler_, lm_, state_, candidateKeys_, candidateController_,
                     useVerticalCandidates_>>

NextOrderKey == MaybeAbsoluteOrderKey \/ Reset

SpecOrderKey == Init /\ [][NextOrderKey]_vars

-----------------------------------------------------------------------------
(* Specification SpecAdd: a marked range is added as a user phrase after   *)
(* candidates were selected, while Chinese conversion is switched on and   *)
(* off; keys are handled until the first phrase has been added.            *)

AddKeys == {KeyU, Key3, KeyDown, KeyShiftLeft, KeyEnter}

AddKeyEvent ==
    /\ lm_.userPhrases_ = <<>>
    /\ mcbopomofoKeyEvent(AddKeys, Bounds(MaxAddWidth, 0, 1))
AddCandidateSelected ==
    handleCandidateKeyEventSelected(
        SelectingKeys, Bounds(MaxAddWidth, 0, 1))

NextAdd == AddKeyEvent \/ AddCandidateSelected \/ setChineseConversionEnabled

SpecAdd == Init /\ [][NextAdd]_vars

-----------------------------------------------------------------------------
(* Specification SpecSpace: Shift + Space in both letter modes, on an      *)
(* empty and on a filled grid, with the cursor anywhere.                   *)

SpaceKeys == {KeyU, Key3, KeyLeft, KeyShiftSpace}

SpaceKeyEvent == mcbopomofoKeyEvent(SpaceKeys, Bounds(MaxSpaceWidth, 0, 0))

NextSpace == SpaceKeyEvent \/ setLetterMode \/ Reset

SpecSpace == Init /\ [][NextSpace]_vars

-----------------------------------------------------------------------------
(* Specification SpecPanel: the candidate panel is opened from Inputting   *)
(* and Marking states and closed again, and Esc is handled with either     *)
(* setting of setEscClearEntireBuffer.                                     *)

PanelKeys == {KeyU, Key3, KeySpace, KeyDown, KeyLeft, KeyShiftLeft, KeyEsc}

PanelKeyEvent == mcbopomofoKeyEvent(PanelKeys, Bounds(MaxPanelWidth, 0, 0))

NextPanel ==
    PanelKeyEvent \/ CandidatePanelCancelled \/ setEscClearEntireBuffer

SpecPanel == Init /\ [][NextPanel]_vars

-----------------------------------------------------------------------------
(* Specification SpecTab: Tab and Shift + Tab step through the candidates  *)
(* at the cursor, wherever the cursor is and whether or not the cursor is   *)
(* to move after a selection.                                              *)

TabKeys == {KeyU, Key3, KeyLeft, KeyTab, KeyShiftTab}

TabKeyEvent ==
    mcbopomofoKeyEvent(TabKeys, Bounds(MaxTabWidth, MaxTabObservations, 0))

NextTab ==
    TabKeyEvent \/ setMoveCursorAfterSelection

SpecTab == Init /\ [][NextTab]_vars

-----------------------------------------------------------------------------
(* Specification SpecCursor: every operation that moves the cursor or      *)
(* changes the width of the grid, on a buffer of the smallest size.        *)

CursorKeys ==
    {KeyU, Key3, KeyLeft, KeyRight, KeyHome, KeyEnd, KeyBackspace, KeyDelete,
     KeyDown}

\* keys are handled once the buffer has its smallest size
CursorKeyEvent ==
    /\ keyHandler_.composingBufferSize_ = kMinComposingBufferSize
    /\ mcbopomofoKeyEvent(CursorKeys, Bounds(MaxCursorWidth, 0, 0))
CursorCandidateSelected ==
    handleCandidateKeyEventSelected(
        SelectingKeys, Bounds(MaxCursorWidth, 0, 0))
CursorSetSize == setComposingBufferSize({kMinComposingBufferSize})

NextCursor ==
    CursorKeyEvent \/ CursorCandidateSelected \/ CursorSetSize
    \/ setMoveCursorAfterSelection

SpecCursor == Init /\ [][NextCursor]_vars

-----------------------------------------------------------------------------
(* Specification SpecShift: the cursor is moved with and without Shift,    *)
(* in both directions.                                                     *)

ShiftKeys ==
    {KeyU, Key3, KeyLeft, KeyEnd, KeyShiftLeft, KeyShiftRight, KeyShiftHome}

ShiftKeyEvent == mcbopomofoKeyEvent(ShiftKeys, Bounds(MaxShiftWidth, 0, 0))

NextShift == ShiftKeyEvent \/ Reset

SpecShift == Init /\ [][NextShift]_vars

-----------------------------------------------------------------------------
(* Specification SpecList: the key that brings up the punctuation list,    *)
(* on a key handler whose language model has the list and on one whose     *)
(* language model has not.                                                 *)

\* the static dictionary without the punctuation list
webDataWithoutPunctuationList ==
    [key \in DOMAIN webData \ {kPunctuationListUnigramKey} |-> webData[key]]

InitList ==
    /\ keyHandler_ = NewKeyHandler
    /\ lm_ \in {WebLanguageModel(webData),
                WebLanguageModel(webDataWithoutPunctuationList)}
    /\ state_ = Empty
    /\ candidateKeys_ = DefaultCandidateKeys
    /\ candidateController_ = NewCandidateController
    /\ useVerticalCandidates_ = FALSE
    /\ call = NoCall

ListKeys == {KeyU, Key3, KeyLeft, KeyGrave}

ListKeyEvent == mcbopomofoKeyEvent(ListKeys, Bounds(MaxListWidth, 0, 0))

NextList == ListKeyEvent \/ CandidatePanelCancelled \/ Reset

SpecList == InitList /\ [][NextList]_vars

-----------------------------------------------------------------------------
(* Specification SpecOther: punctuation and upper-case letters, on a key   *)
(* handler whose language model has the comma for any layout only and on   *)
(* one whose language model has it for the Standard layout as well, the    *)
(* layout being changed between keys.                                      *)

\* the static dictionary with a comma of the Standard layout
webDataWithLayoutPunctuation ==
    (kPunctuationKeyPrefix \o GetKeyboardLayoutName(StandardLayout)
         \o <<"_", ",">> :> << <<"r">>, 0 >>) @@ webData

InitOther ==
    /\ keyHandler_ = NewKeyHandler
    /\ lm_ \in {WebLanguageModel(webData),
                WebLanguageModel(webDataWithLayoutPunctuation)}
    /\ state_ = Empty
    /\ candidateKeys_ = DefaultCandidateKeys
    /\ candidateController_ = NewCandidateController
    /\ useVerticalCandidates_ = FALSE
    /\ call = NoCall

OtherAsciiKeys == {KeyComma, KeyUpperA, KeyUpperB}
OtherTypedKeys == {KeyU, Key3, KeyLeft, KeyComma, KeyUpperA, KeyUpperB}

OtherKeyEvent == mcbopomofoKeyEvent(OtherTypedKeys, Bounds(MaxOtherWidth, 0, 0))

\* the layout is set between syllables: a name of the switch and a name
\* it does not know
OtherLayouts ==
    {<<"S","t","a","n","d","a","r","d">>, <<"H","s","u">>,
     <<"D","v","o","r","a","k">>}

OtherSetLayout ==
    isEmpty(keyHandler_.reading_) /\ setKeyboardLayout(OtherLayouts)

NextOther == OtherKeyEvent \/ setLetterMode \/ OtherSetLayout \/ Reset

SpecOther == InitOther /\ [][NextOther]_vars

-----------------------------------------------------------------------------
(* Specification SpecPick: candidates are picked from the panel before and *)
(* after the cursor, with and without moving the cursor behind them.       *)

PickKeys == {KeyU, Key3, KeyLeft, KeyBackspace, KeyDown}

\* a dictionary whose second candidate of the syllable has exactly the
\* score below which a selection is not observed
webDataAtThreshold ==
    [webData EXCEPT ![<<"1","2">>] =
        << <<"C">>, -3000000, <<"D">>, kNoOverrideThreshold >>]

InitPick ==
    /\ keyHandler_ = NewKeyHandler
    /\ lm_ \in {WebLanguageModel(webData),
                WebLanguageModel(webDataAtThreshold)}
    /\ state_ = Empty
    /\ candidateKeys_ = DefaultCandidateKeys
    /\ candidateController_ = NewCandidateController
    /\ useVerticalCandidates_ = FALSE
    /\ call = NoCall

\* keys are handled until the override model has observed a selection
PickKeyEvent ==
    /\ Len(keyHandler_.userOverrideModel_) = 0
    /\ mcbopomofoKeyEvent(PickKeys, Bounds(MaxPickWidth, MaxObservations, 0))
PickCandidateSelected ==
    handleCandidateKeyEventSelected(
        SelectingKeys, Bounds(MaxPickWidth, MaxObservations, 0))

NextPick ==
    PickKeyEvent \/ PickCandidateSelected \/ setSelectPhrase
    \/ setMoveCursorAfterSelection

SpecPick == InitPick /\ [][NextPick]_vars

(***************************************************************************)
(* Specification SpecRepick: candidates are picked from the panel more     *)
(* than once, with and without moving the cursor behind them, so that      *)
(* nodes pinned by different selections overlap.  The phrase of two        *)
(* readings has the score below which a selection is not observed.         *)
(***************************************************************************)

RepickKeys == {KeyU, Key3, KeyLeft, KeyDown}

\* a dictionary whose phrase of two readings has exactly the score below
\* which a selection is not observed
webDataPhraseAtThreshold ==
    [webData EXCEPT ![<<"1","2","1","2">>] =
        << <<"{ud840}", "{udc00}", "{ud840}", "{udc01}">>,
           kNoOverrideThreshold >>]

InitRepick ==
    /\ keyHandler_ = NewKeyHandler
    /\ lm_ = WebLanguageModel(webDataPhraseAtThreshold)
    /\ state_ = Empty
    /\ candidateKeys_ = DefaultCandidateKeys
    /\ candidateController_ = NewCandidateController
    /\ useVerticalCandidates_ = FALSE
    /\ call = NoCall

RepickKeyEvent ==
    mcbopomofoKeyEvent(
        RepickKeys, Bounds(MaxRepickWidth, MaxRepickObservations, 0))
RepickCandidateSelected ==
    handleCandidateKeyEventSelected(
        SelectingKeys, Bounds(MaxRepickWidth, MaxRepickObservations, 0))

NextRepick ==
    RepickKeyEvent \/ RepickCandidateSelected \/ setMoveCursorAfterSelection

SpecRepick == InitRepick /\ [][NextRepick]_vars

-----------------------------------------------------------------------------
(* Specification SpecHead: syllables and punctuation are inserted at any   *)
(* position of a composing buffer of the smallest size.                    *)

HeadKeys == {KeyU, Key3, KeyLeft, KeyComma}

\* keys are handled once the buffer has its smallest size
HeadKeyEvent ==
    /\ keyHandler_.composingBufferSize_ = kMinComposingBufferSize
    /\ mcbopomofoKeyEvent(HeadKeys, Bounds(MaxHeadWidth, 0, 0))
HeadSetSize == setComposingBufferSize({kMinComposingBufferSize})

NextHead == HeadKeyEvent \/ HeadSetSize

SpecHead == Init /\ [][NextHead]_vars

-----------------------------------------------------------------------------
(* Specification SpecCompose: syllables are composed by a tone marker and  *)
(* by Space, over a dictionary that has the toned syllable and one that    *)
(* lacks it.                                                               *)

webDataWithoutTonedSyllable ==
    [key \in DOMAIN webData \ {<<"1","2">>} |-> webData[key]]

InitCompose ==
    /\ keyHandler_ = NewKeyHandler
    /\ lm_ \in {WebLanguageModel(webData),
                WebLanguageModel(webDataWithoutTonedSyllable)}
    /\ state_ = Empty
    /\ candidateKeys_ = DefaultCandidateKeys
    /\ candidateController_ = NewCandidateController
    /\ useVerticalCandidates_ = FALSE
    /\ call = NoCall

ComposeKeys == {KeyU, Key3, KeySpace, KeyLeft}

ComposeKeyEvent ==
    mcbopomofoKeyEvent(ComposeKeys, Bounds(MaxComposeWidth, 0, 0))

NextCompose == ComposeKeyEvent \/ CandidatePanelCancelled \/ Reset

SpecCompose == InitCompose /\ [][NextCompose]_vars

-----------------------------------------------------------------------------
(* Specification SpecTraditional: traditional mode is switched on before   *)
(* the first key and stays on.  The panel has nine hotkeys over two        *)
(* candidates, or four hotkeys over six candidates, which are two pages;   *)
(* the four hotkeys are letters, or the space and three digits.            *)

\* the static dictionary with six candidates for the syllable
webDataWithPages ==
    (<<"1","2">> :> << <<"C">>, -3000000, <<"D">>, -4000000,
                       <<"E">>, -5000000, <<"F">>, -6000000,
                       <<"G">>, -7000000, <<"H">>, -9000000 >>) @@ webData

FourCandidateKeys == <<"a", "s", "d", "f">>
SpaceCandidateKeys == <<" ", "1", "2", "3">>

InitTraditional ==
    /\ keyHandler_ = NewKeyHandler
    /\ \/ /\ lm_ = WebLanguageModel(webData)
          /\ candidateKeys_ = DefaultCandidateKeys
       \/ /\ lm_ = WebLanguageModel(webDataWithPages)
          /\ candidateKeys_ \in {FourCandidateKeys, SpaceCandidateKeys}
    /\ state_ = Empty
    /\ candidateController_ = NewCandidateController
    /\ useVerticalCandidates_ = FALSE
    /\ call = NoCall

TraditionalKeys ==
    {KeyU, Key3, KeySpace, KeyShiftSpace, KeyComma, KeyUpperA, KeyEsc}
TraditionalPanelKeys == {KeyU, Key3, KeyComma, KeySpace, KeyDown, KeyEnd}

\* the keys of the hotkeys, one of them with Shift held, and Enter
TraditionalSelectingKeys ==
    {Key(<<"1">>, "ASCII", FALSE), Key(<<"2">>, "ASCII", FALSE),
     Key(<<"3">>, "ASCII", FALSE), Key(<<"a">>, "ASCII", FALSE),
     Key(<<"s">>, "ASCII", FALSE), Key(<<"d">>, "ASCII", FALSE),
     Key(<<"f">>, "ASCII", FALSE), Key(<<"1">>, "ASCII", TRUE),
     KeySpace, KeyEnter}

\* keys are handled once traditional mode is on
TraditionalKeyEvent ==
    /\ keyHandler_.traditionalMode_
    /\ mcbopomofoKeyEvent(TraditionalKeys, Bounds(MaxTraditionalWidth, 0, 0))
TraditionalCandidateSelected ==
    handleCandidateKeyEventSelected(
        TraditionalSelectingKeys, Bounds(MaxTraditionalWidth, 0, 0))
TraditionalCandidateKey ==
    handleCandidateKeyEventOther(TraditionalPanelKeys,
                                 Bounds(MaxTraditionalWidth, 0, 0))

\* traditional mode is set while it is off
TraditionalSetMode == ~keyHandler_.traditionalMode_ /\ setTraditionalMode

\* the orientation of the panel is set while the panel is shown
TraditionalSetVertical ==
    state_.type = "ChoosingCandidate" /\ setUserVerticalCandidates

NextTraditional ==
    TraditionalKeyEvent \/ TraditionalCandidateSelected
    \/ CandidatePanelCancelled \/ TraditionalCandidateKey
    \/ TraditionalSetMode \/ setLetterMode \/ TraditionalSetVertical

SpecTraditional == InitTraditional /\ [][NextTraditional]_vars

-----------------------------------------------------------------------------
(* Properties. *)

\* the width of the grid
Width == Len(keyHandler_.builder_.readings_)

\* the states the last call emitted after it had inserted a reading
InsertedEmissions ==
    {i \in 1..Len(call.emitted) : call.emitted[i].inserted}

\* the last call was handle() and accepted a new reading into the grid
HandleInserted == call.op = "handle" /\ InsertedEmissions # {}

\* C1: whenever handle() accepts a new reading into the grid, the grid
\* width is at most composingBufferSize when the resulting Inputting state
\* is emitted.
C1_WidthWithinSizeAfterInsert ==
    call.op = "handle" =>
        \A i \in InsertedEmissions :
            call.emitted[i].state.type = "Inputting"
                => call.emitted[i].width <= keyHandler_.composingBufferSize_

\* the reading the key of the step puts into the grid
ReadingOfKey ==
    IF call'.key = KeyComma THEN kPunctuationKeyPrefix \o <<",">>
    ELSE composedString(combineKey(keyHandler_.reading_, call'.key.ascii))

\* the readings of the grid once the reading is inserted at the cursor
ReadingsWithInserted ==
    LET cursor == keyHandler_.builder_.cursorIndex_
        old == keyHandler_.builder_.readings_
    IN  SubSeq(old, 1, cursor) \o <<ReadingOfKey>>
            \o SubSeq(old, cursor + 1, Len(old))

RECURSIVE SpansFrom(_, _, _)
\* the spans from the i-th on start at location and end at the returned
\* location, each of them spanning at least one reading; -1 if they do not
SpansFrom(spans, i, location) ==
    IF i > Len(spans) THEN location
    ELSE IF spans[i][1] # location \/ spans[i][2] < 1 THEN -1
    ELSE SpansFrom(spans, i + 1, location + spans[i][2])

\* C3: at every state emission of handle(), candidateSelected(),
\* candidatePanelCancelled() and reset() the walked path partitions [0, W)
\* of the grid: its anchors follow one another from 0 and their spanning
\* lengths sum to the grid width W, and the path is empty when W = 0.
C3_WalkPartitionsGrid ==
    \A i \in 1..Len(call.emitted) :
        LET e == call.emitted[i]
        IN  /\ SpansFrom(e.spans, 1, 0) = e.width
            /\ e.width = 0 => e.spans = <<>>

\* C3 witness: a candidate was selected on a grid of the buffer's size
\* after a head eviction, and the state emitted has a path of several
\* anchors.
C3_Witness ==
    /\ call.op = "candidateSelected"
    /\ keyHandler_.composingBufferSize_ = kMinComposingBufferSize
    /\ \E i \in 1..Len(call.emitted) :
           /\ call.emitted[i].width >= kMinComposingBufferSize
           /\ Len(call.emitted[i].spans) >= 2

\* C4: after any mutation of the grid within a handler call (insert, delete,
\* head eviction, pin, override of a score) walk() recomputes the walked
\* path before the next state is passed to stateCallback: no state is
\* emitted while the grid has changed since the last walk.
C4_WalkedBeforeEmission ==
    \A i \in 1..Len(call.emitted) : ~call.emitted[i].gridChanged

\* the key is Shift, Meta or Alt alone
IsModifier(key) ==
    key.ascii \in {<<"S","h","i","f","t">>, <<"M","e","t","a">>,
                   <<"A","l","t">>}

\* handle() rejects the key with errorCallback alone: Tab when the state is
\* not Inputting, a reading is being typed or the grid has no candidate at
\* the cursor, the punctuation-list key when the language model has the
\* punctuation list and a reading is being typed
RejectedSilently(key) ==
    \/ /\ key.name = "TAB"
       /\ \/ state_.type # "Inputting"
          \/ ~isEmpty(keyHandler_.reading_)
          \/ Len(buildChoosingCandidateState(keyHandler_, state_).candidates)
                 = 0
    \/ /\ key.name = "ASCII"
       /\ key.ascii = kPunctuationListKey
       /\ hasUnigramsForKey(lm_, kPunctuationListUnigramKey)
       /\ ~isEmpty(keyHandler_.reading_)

\* handle() consumes the key with no callback at all: an upper-case letter
\* that is no punctuation, when letters go to the composing buffer and the
\* language model has no unigrams for the letter
SwallowedSilently(key) ==
    /\ key.name = "ASCII"
    /\ Len(key.ascii) = 1
    /\ key.ascii[1] \in UpperCaseLetters
    /\ ~isValidKey(key.ascii)
    /\ keyHandler_.putLowercaseLettersToComposingBuffer_
    /\ ~hasUnigramsForKey(lm_,
            kPunctuationKeyPrefix
                \o GetKeyboardLayoutName(keyHandler_.reading_.keyboardLayout)
                \o <<"_">> \o key.ascii)
    /\ ~hasUnigramsForKey(lm_, kPunctuationKeyPrefix \o key.ascii)
    /\ ~hasUnigramsForKey(lm_, kLetterPrefix \o key.ascii)

ReadingHasNoUnigrams(key) ==
    /\ key.name = "SPACE"
    /\ ~isEmpty(keyHandler_.reading_)
    /\ ~hasUnigramsForKey(lm_, composedString(keyHandler_.reading_))

\* C6 as stated: every handle() call that invokes errorCallback also
\* invokes stateCallback, with a state that preserves the composing buffer
\* and the reading.
C6_ErrorAlsoEmitsState ==
    [][(call'.op = "handle" /\ call'.errors > 0)
        => /\ call'.emitted # <<>>
           /\ keyHandler_'.reading_ = keyHandler_.reading_
           /\ IsNotEmpty(state_)
                  => call'.emitted[Len(call'.emitted)].state.composingBuffer
                         = state_.composingBuffer]_vars

\* C6 amended: every handle() call that invokes errorCallback leaves the
\* grid, its cursor and the walked path as they were, and also invokes
\* stateCallback, except when Tab or the punctuation-list key is rejected:
\* those invoke errorCallback alone and change nothing.  The state emitted
\* preserves the composing buffer and the reading, except when the reading
\* has no unigrams: then the reading is cleared and the state emitted is
\* the composing buffer without it (EmptyIgnoringPrevious if the grid is
\* empty).
C6_ErrorEmitsStateUnlessRejected ==
    [][(call'.op = "handle" /\ call'.errors > 0)
        => LET key == call'.key
               last == call'.emitted[Len(call'.emitted)].state
           IN  /\ keyHandler_'.builder_ = keyHandler_.builder_
               /\ keyHandler_'.walkedNodes_ = keyHandler_.walkedNodes_
               /\ IF key.name = "TAB" \/ key.ascii = kPunctuationListKey
                  THEN /\ call'.emitted = <<>>
                       /\ keyHandler_' = keyHandler_
                  ELSE /\ Len(call'.emitted) = 1
                       /\ IF ReadingHasNoUnigrams(key)
                          THEN /\ isEmpty(keyHandler_'.reading_)
                               /\ IF Width = 0
                                  THEN last = EmptyIgnoringPrevious
                                  ELSE /\ last.type = "Inputting"
                                       /\ LET composed ==
                                                  getComposedString(keyHandler_,
                                                      keyHandler_.builder_.cursorIndex_)
                                          IN  last.composingBuffer
                                                  = composed.head \o composed.tail
                          ELSE /\ keyHandler_'.reading_ = keyHandler_.reading_
                               /\ IsNotEmpty(state_)
                               /\ last.composingBuffer = state_.composingBuffer
                               /\ last.type \in {"Inputting", "Marking"}]_vars

\* C6 witness: Delete was pressed while a reading was being typed after
\* the grid had readings: errorCallback and stateCallback were both invoked
\* and the reading is still there.
C6_Witness ==
    /\ call.op = "handle"
    /\ call.key = KeyDelete
    /\ call.errors = 1
    /\ Len(call.emitted) = 1
    /\ ~isEmpty(keyHandler_.reading_)
    /\ Width > 0

\* C7: every Inputting state emitted satisfies 0 <= cursorIndex <=
\* length(composingBuffer), where composingBuffer = head + reading + tail
\* and cursorIndex = length(head) + length(reading), head and tail being
\* the composed text before and after the grid cursor.
C7_InputtingCursorWithinBuffer ==
    /\ \A i \in 1..Len(call.emitted) :
           LET state == call.emitted[i].state
           IN  state.type = "Inputting"
                   => /\ 0 <= state.cursorIndex
                      /\ state.cursorIndex <= Len(state.composingBuffer)
    /\ state_.type = "Inputting"
           => LET composed == getComposedString(keyHandler_,
                                  keyHandler_.builder_.cursorIndex_)
                  reading == composedString(keyHandler_.reading_)
              IN  /\ state_.composingBuffer
                         = composed.head \o reading \o composed.tail
                  /\ state_.cursorIndex = Len(composed.head) + Len(reading)

\* C7 witness: an Inputting state with a reading being typed between two
\* readings of the grid.
C7_Witness ==
    /\ state_.type = "Inputting"
    /\ call.emitted # <<>>
    /\ ~isEmpty(keyHandler_.reading_)
    /\ 0 < keyHandler_.builder_.cursorIndex_
    /\ keyHandler_.builder_.cursorIndex_ < Width
    /\ state_.cursorIndex < Len(state_.composingBuffer)

\* C8: for every integer passed to the composingBufferSize setter, in any
\* order, the stored composingBufferSize is in [4, 100]: a value above 100
\* becomes 100, a value below 4 becomes 4, a value in the range is stored
\* unchanged; the initial value is 20.
C8_SizeClamped ==
    /\ keyHandler_.composingBufferSize_ \in 4..100
    /\ call.op = "new" => keyHandler_.composingBufferSize_ = 20
    /\ call.op = "setComposingBufferSize"
           => keyHandler_.composingBufferSize_
                  = IF call.value > 100 THEN 100
                    ELSE IF call.value < 4 THEN 4
                    ELSE call.value

\* C8 witness: a value below 4 was passed to the setter and 4 is stored.
C8_Witness ==
    /\ call.op = "setComposingBufferSize"
    /\ call.value < 4
    /\ keyHandler_.composingBufferSize_ = 4

\* C9: every Marking state built by buildMarkingState, with the mark start
\* on either side of the grid cursor, satisfies composingBuffer = head +
\* markedText + tail, and its cursorIndex is the length of the composed
\* head at the grid cursor.
C9_MarkingSplitsBuffer ==
    /\ \A i \in 1..Len(call.emitted) :
           LET state == call.emitted[i].state
           IN  state.type = "Marking"
                   => state.composingBuffer
                          = state.head \o state.markedText \o state.tail
    /\ state_.type = "Marking"
           => state_.cursorIndex
                  = Len(getComposedString(keyHandler_,
                            keyHandler_.builder_.cursorIndex_).head)

\* C9 witness: a Marking state whose mark start is before the grid cursor
\* and whose marked text is shorter than the buffer.
C9_Witness ==
    /\ state_.type = "Marking"
    /\ state_.markStartGridCursorIndex < keyHandler_.builder_.cursorIndex_
    /\ state_.markedText # <<>>
    /\ state_.head # <<>>

\* the readings between the mark start and the grid cursor
MarkedReadings ==
    LET cursor == keyHandler_.builder_.cursorIndex_
        begin == state_.markStartGridCursorIndex
    IN  SubSeq(keyHandler_.builder_.readings_,
               Min(cursor, begin) + 1, Min(cursor, begin)
                   + (IF cursor > begin THEN cursor - begin ELSE begin - cursor))

\* C10: a Marking state is acceptable if and only if the number of marked
\* readings is between 2 and 6 inclusive and the language model has no
\* unigram for the '-'-joined reading key whose value is the marked text.
C10_AcceptableIffNewPhrase ==
    state_.type = "Marking"
        => LET unigrams == unigramsForKey(lm_, Join(MarkedReadings, <<"-">>))
           IN  state_.acceptable
                   <=> /\ Len(MarkedReadings) >= 2
                       /\ Len(MarkedReadings) <= 6
                       /\ ~\E i \in 1..Len(unigrams) :
                              unigrams[i].keyValue.value = state_.markedText

\* C10 witness: a Marking state of two readings that is not acceptable
\* because a phrase the user added has its key and its value.
C10_Witness ==
    /\ state_.type = "Marking"
    /\ Len(MarkedReadings) = 2
    /\ ~state_.acceptable
    /\ \E key \in DOMAIN lm_.userPhrases_ :
           /\ key = Join(MarkedReadings, <<"-">>)
           /\ \E i \in 1..Len(lm_.userPhrases_[key]) :
                  lm_.userPhrases_[key][i] = state_.markedText

\* C11: every NotEmpty state entered (Inputting, ChoosingCandidate,
\* Marking) has a non-empty composing buffer, whatever keys and
\* configuration changes came before; with the reading and the grid both
\* empty the handler emits an Empty kind of state instead.
C11_NotEmptyHasBuffer ==
    /\ \A i \in 1..Len(call.emitted) :
           IsNotEmpty(call.emitted[i].state)
               => Len(call.emitted[i].state.composingBuffer) > 0
    /\ IsNotEmpty(state_) => Len(state_.composingBuffer) > 0

\* C12: the state the controller stores between key events is never
\* EmptyIgnoringPrevious: after entering it the controller goes on to enter
\* Empty.
C12_NeverStoresEmptyIgnoringPrevious == state_.type # "EmptyIgnoringPrevious"

\* C13: entering EmptyIgnoringPrevious never commits text, whatever the
\* previous state is (an Inputting or Marking state with a non-empty buffer
\* included) and also on InputController.reset(); entering Empty from a
\* NotEmpty previous state commits that state's composing buffer, once.
C13_OnlyEmptyCommitsPrevious ==
    /\ call.op = "reset" => call.commits = <<>>
    /\ call.op = "enterNewState"
           => /\ state_.type = "EmptyIgnoringPrevious" => call.commits = <<>>
              /\ (state_.type = "Empty" /\ IsNotEmpty(call.prev))
                     => call.commits = <<call.prev.composingBuffer>>

\* C13 witness: EmptyIgnoringPrevious was entered from a Marking state with
\* a buffer of two characters, and nothing was committed.
C13_Witness ==
    /\ call.op = "enterNewState"
    /\ state_.type = "EmptyIgnoringPrevious"
    /\ call.prev.type = "Marking"
    /\ Len(call.prev.composingBuffer) = 2
    /\ call.commits = <<>>

\* the handler has no reading, no grid and no walked path
HandlerIsClear(kh) ==
    /\ isEmpty(kh.reading_)
    /\ kh.builder_ = EmptyBuilder
    /\ kh.walkedNodes_ = <<>>

\* C14: every call that emits a Committing state also calls reset(), before
\* the next key is fed in; reset() clears the reading, the grid and the
\* walked path together (after a call that reset the handler and fed it no
\* further key none of the three is left), and it never changes the
\* user-override model.
C14_CommitResetsTogether ==
    [][/\ (\E i \in 1..Len(call'.emitted) :
               call'.emitted[i].state.type = "Committing")
           => call'.resets > 0
       /\ (call'.resets > 0 /\ call'.op # "candidateKey")
           => HandlerIsClear(keyHandler_')
       /\ call'.resets > 0
           => keyHandler_'.userOverrideModel_
                  = keyHandler_.userOverrideModel_]_vars

\* C14 witness: Enter has committed a buffer of one reading, the handler
\* was reset and the override model still has its observation.
C14_Witness ==
    /\ call.op = "handle"
    /\ call.key = KeyEnter
    /\ call.resets = 1
    /\ \E i \in 1..Len(call.emitted) :
           /\ call.emitted[i].state.type = "Committing"
           /\ call.emitted[i].width = 1
    /\ HandlerIsClear(keyHandler_)
    /\ keyHandler_.userOverrideModel_ # <<>>

\* the reading once it has taken the key, if the key is one of its keys
ReadingAfterKey(key) ==
    IF isValidKey(key.ascii) THEN combineKey(keyHandler_.reading_, key.ascii)
    ELSE keyHandler_.reading_

\* the step composed the reading: the reading it had after the key is
\* cleared and was submitted to the grid, which either inserted it or, for
\* want of unigrams, had errorCallback invoked
ComposedReading ==
    /\ ~isEmpty(ReadingAfterKey(call'.key))
    /\ isEmpty(keyHandler_'.reading_)
    /\ InsertedEmissions' # {} \/ call'.errors > 0

\* the key adds a tone marker to a reading
IsToneMarkerKey(ascii) ==
    /\ isValidKey(ascii)
    /\ hasToneMarker(combineKey(NewBopomofoReadingBuffer, ascii))

\* C15: handle() composes the reading exactly when the key handled is a
\* tone-marker key that leaves the reading with more than a tone marker,
\* or when Space is pressed with a non-empty reading that is not only a
\* tone marker; Space on a lone tone marker does not compose, and neither
\* does a key other than a tone-marker key on a reading that already has
\* its tone marker.
C15_ComposesUnlessToneOnly ==
    [][call'.op = "handle"
        => LET key == call'.key
               reading == ReadingAfterKey(key)
           IN  ComposedReading
                   <=> \/ /\ IsToneMarkerKey(key.ascii)
                          /\ ~hasToneMarkerOnly(reading)
                       \/ /\ key.name = "SPACE"
                          /\ ~isEmpty(reading)
                          /\ ~hasToneMarkerOnly(reading)]_vars


NoDuplicates(list) ==
    \A i, j \in 1..Len(list) : list[i] = list[j] => i = j

\* the phrase addUserPhrase stores: the phrase as given, or its
\* traditional-character form while the input converter is set
StoredPhrase == IF lm_.addUserPhraseConverter THEN cn2tw(call'.phrase)
                ELSE call'.phrase

\* C16 as stated: addUserPhrase(key, phrase) puts the phrase, converted by
\* the input converter if one is set, at the front of the key's list, so
\* that it is the first unigram returned for the key, never stores a
\* duplicate and notifies the change callback; an already-present phrase
\* leaves the list unchanged.
C16_PhrasePrepended ==
    [][call'.op = "addUserPhrase"
        => LET key == call'.phraseKey
               before == UserList(lm_, key)
               after == UserList(lm_', key)
           IN  /\ NoDuplicates(after)
               /\ IF Includes(before, StoredPhrase) THEN after = before
                  ELSE /\ after = <<StoredPhrase>> \o before
                       /\ lm_'.onPhraseChange = lm_.onPhraseChange + 1
                       /\ unigramsForKey(lm_', key)[1].keyValue.value
                              = Converted(lm_', StoredPhrase)]_vars

\* C16 amended: addUserPhrase(key, phrase) appends the phrase, converted by
\* the input converter if one is set, to the end of the key's list, after
\* the phrases it held, and calls the change callback once; if the
\* converted phrase is already in the list, the list is unchanged and the
\* callback is not called.  A phrase the list holds is never stored again,
\* so that a list that holds no phrase twice never comes to, and the lists
\* of the other keys are untouched.
C16_PhraseAppended ==
    [][call'.op = "addUserPhrase"
        => LET key == call'.phraseKey
               before == UserList(lm_, key)
               after == UserList(lm_', key)
           IN  /\ NoDuplicates(before) => NoDuplicates(after)
               /\ \A other \in PhraseKeys \ {key} :
                      UserList(lm_', other) = UserList(lm_, other)
               /\ IF Includes(before, StoredPhrase)
                  THEN /\ after = before
                       /\ lm_'.onPhraseChange = lm_.onPhraseChange
                  ELSE /\ after = before \o <<StoredPhrase>>
                       /\ lm_'.onPhraseChange = lm_.onPhraseChange + 1]_vars

\* C16 witness: with the input converter set, the simplified phrase d was
\* added to a key that already had a phrase: it is stored as D at the end
\* of the list.
C16_Witness ==
    /\ call.op = "addUserPhrase"
    /\ call.phrase = <<"d">>
    /\ lm_.addUserPhraseConverter
    /\ Len(UserList(lm_, call.phraseKey)) = 2
    /\ UserList(lm_, call.phraseKey)[2] = <<"D">>
    /\ lm_.onPhraseChange = 2

\* the values of the key's user phrases and of its dictionary entries, as
\* the output converter gives them, and the dictionary scores
UserValues(key) ==
    [i \in 1..Len(UserList(lm_, key)) |->
        Converted(lm_, UserList(lm_, key)[i])]

StaticTokens(key) ==
    IF maybeAbsoluteOrderKey(key) \in DOMAIN lm_.map_
    THEN lm_.map_[maybeAbsoluteOrderKey(key)] ELSE <<>>

StaticValues(key) ==
    [i \in 1..(Len(StaticTokens(key)) \div 2) |->
        Converted(lm_, StaticTokens(key)[2 * i - 1])]

StaticScores(key) ==
    [i \in 1..(Len(StaticTokens(key)) \div 2) |-> StaticTokens(key)[2 * i]]

SetOf(list) == {list[i] : i \in 1..Len(list)}

\* the index of the first occurrence of a value in a list that has it
FirstIndex(list, value) ==
    CHOOSE i \in 1..Len(list) :
        list[i] = value /\ \A j \in 1..(i - 1) : list[j] # value

\* C17: for a key other than " ", unigramsForKey returns the user-phrase
\* unigrams, with score 0 and in the order of the list, before the
\* static-dictionary unigrams, in dictionary order with their scores; no
\* value appears twice after output conversion, a static entry whose value
\* equals a user entry's value being dropped; for key " " it returns
\* exactly the one unigram (" ", " ").
C17_UserBeforeStaticNoDuplicates ==
    call.op = "unigramsForKey"
        => /\ ~call.thrown
           /\ LET key == call.phraseKey
                  unigrams == call.unigrams
                  values == [i \in 1..Len(unigrams) |-> unigrams[i].keyValue.value]
                  user == UserValues(key)
                  static == StaticValues(key)
                  n == Cardinality(SetOf(user))
              IN  IF key = <<" ">>
                  THEN /\ Len(unigrams) = 1
                       /\ unigrams[1].keyValue = KeyValuePair(<<" ">>, <<" ">>)
                  ELSE /\ NoDuplicates(values)
                       /\ SetOf(values) = SetOf(user) \cup SetOf(static)
                       /\ \A i \in 1..Len(unigrams) : unigrams[i].keyValue.key = key
                       /\ \A i \in 1..Len(unigrams) :
                              IF i <= n
                              THEN /\ values[i] \in SetOf(user)
                                   /\ unigrams[i].score = 0
                              ELSE /\ values[i] \notin SetOf(user)
                                   /\ unigrams[i].score
                                          = StaticScores(key)[FirstIndex(static,
                                                                         values[i])]
                       /\ \A i, j \in 1..Len(unigrams) :
                              i < j =>
                                  IF j <= n
                                  THEN FirstIndex(user, values[i])
                                           < FirstIndex(user, values[j])
                                  ELSE i > n =>
                                           FirstIndex(static, values[i])
                                               < FirstIndex(static, values[j])

\* the distinct characters of a setCandidateKeys argument once lower-cased
LowerCased(keys, version) ==
    {toLowerCase(keys[i], version) : i \in 1..Len(keys)}

KeysGiven == IF call'.keys = Undefined THEN DefaultCandidateKeys
             ELSE call'.keys

\* C18: after any sequence of setCandidateKeys calls the candidate keys are
\* between 4 and 15 characters, each once and each in lower case (by the
\* tables of the engine), 1 to 9 by default; a string with between 4 and
\* 15 distinct lower-cased characters sets them, in the order of their
\* first occurrence, and any other string leaves the previous keys
\* unchanged.
C18_CandidateKeysWellFormed ==
    /\ [](/\ Len(candidateKeys_) \in 4..15
          /\ NoDuplicates(candidateKeys_)
          /\ \E version \in UnicodeVersions :
                 \A i \in 1..Len(candidateKeys_) :
                     toLowerCase(candidateKeys_[i], version) = candidateKeys_[i]
          /\ call.op = "new"
                 => candidateKeys_ = <<"1", "2", "3", "4", "5", "6", "7", "8",
                                       "9">>)
    /\ [][call'.op = "setCandidateKeys"
            => LET lowered == [k \in 1..Len(KeysGiven) |->
                                  toLowerCase(KeysGiven[k], call'.version)]
               IN  IF Cardinality(SetOf(lowered)) \in 4..15
                   THEN /\ SetOf(candidateKeys_') = SetOf(lowered)
                        /\ \A i \in 1..Len(candidateKeys_') :
                               toLowerCase(candidateKeys_'[i], call'.version)
                                   = candidateKeys_'[i]
                        /\ \A i \in 1..(Len(candidateKeys_') - 1) :
                               FirstIndex(lowered, candidateKeys_'[i])
                                   < FirstIndex(lowered, candidateKeys_'[i + 1])
                   ELSE candidateKeys_' = candidateKeys_]_vars

\* C18 witness: a string of 16 distinct characters, upper-case ones among
\* them, was refused and the keys set by an earlier call, which were given
\* in upper case, are still in place.
C18_Witness ==
    /\ call.op = "setCandidateKeys"
    /\ call.keys # Undefined
    /\ Cardinality(LowerCased(call.keys, call.version)) = 16
    /\ \E i \in 1..Len(call.keys) :
           toLowerCase(call.keys[i], call.version) # call.keys[i]
    /\ candidateKeys_ = <<"1", "2", "3", "a">>

\* C19: Esc handled in the Empty state returns false, invokes neither
\* stateCallback nor errorCallback and leaves the reading, the grid, the
\* cursor, the walked path and the controller's state as they were, so
\* that a second Esc finds what the first found and does the same.
C19_EscFromEmptyChangesNothing ==
    [][(call'.op = "handle" /\ call'.key = KeyEsc /\ state_.type = "Empty")
        => /\ ~call'.returned
           /\ call'.emitted = <<>>
           /\ call'.errors = 0
           /\ call'.commits = <<>>
           /\ keyHandler_' = keyHandler_
           /\ state_' = state_
           /\ lm_' = lm_
           /\ handle(Begin(keyHandler_', lm_'), KeyEsc, state_', FALSE)
                  = handle(Begin(keyHandler_, lm_), KeyEsc, state_, FALSE)]_vars

\* C19 witness: Esc was handled in the Empty state of a controller in
\* traditional mode with Chinese conversion on, and was not accepted.
C19_Witness ==
    /\ call.op = "handle"
    /\ call.key = KeyEsc
    /\ state_.type = "Empty"
    /\ ~call.returned
    /\ call.emitted = <<>>
    /\ keyHandler_.traditionalMode_
    /\ lm_.converter_

\* the segments of a key between its separators, a hyphen that follows an
\* underscore being part of the literal "_-" and no separator
RECURSIVE ProtectedSegmentsFrom(_, _, _)
ProtectedSegmentsFrom(key, i, segment) ==
    IF i > Len(key) THEN <<segment>>
    ELSE IF key[i] = "-" /\ (i = 1 \/ key[i - 1] # "_")
    THEN <<segment>> \o ProtectedSegmentsFrom(key, i + 1, <<>>)
    ELSE ProtectedSegmentsFrom(key, i + 1, Append(segment, key[i]))

ProtectedSegments(key) == ProtectedSegmentsFrom(key, 1, <<>>)

\* C20: maybeAbsoluteOrderKey returns "_punctuation_Hsu_-" as it is, and
\* for every key whose segments all begin with "_" it returns the segments
\* verbatim, one after the other, a "_-" inside a segment never being
\* taken for a separator.
C20_ReservedSegmentsVerbatim ==
    call.op = "maybeAbsoluteOrderKey"
        => /\ call.input = HsuHyphenKey => call.output = call.input
           /\ (\A i \in 1..Len(ProtectedSegments(call.input)) :
                   StartsWith(ProtectedSegments(call.input)[i], <<"_">>))
                  => call.output = Join(ProtectedSegments(call.input), <<>>)

\* Enter is handled on an acceptable Marking state
EnterOnAcceptableMarking ==
    /\ call'.op = "handle"
    /\ call'.key = KeyEnter
    /\ state_.type = "Marking"
    /\ state_.acceptable

\* C21: after Enter is handled on an acceptable Marking state the user
\* phrase is added: unigramsForKey(marking.reading) has a unigram whose
\* value is marking.markedText, and a Marking rebuilt over the same range
\* of readings is not acceptable.
C21_EnterAddsMarkedPhrase ==
    [][EnterOnAcceptableMarking
        => /\ call'.returned
           /\ HasValue(unigramsForKey(lm_', state_.reading), state_.markedText)
           /\ ~buildMarkingState(keyHandler_', lm_',
                                 state_.markStartGridCursorIndex).acceptable]_vars

\* the marked text as addUserPhrase stores it
StoredMarkedText ==
    IF lm_.addUserPhraseConverter THEN cn2tw(state_.markedText)
    ELSE state_.markedText

\* C21 amended: after Enter is handled on an acceptable Marking state the
\* user phrases of marking.reading hold marking.markedText as the input
\* converter stores it, and unigramsForKey(marking.reading) has a unigram
\* whose value is the output conversion of the stored phrase.  When that
\* value is marking.markedText (as it is with Chinese conversion off, and
\* with it on for a text the two conversions give back) a Marking rebuilt
\* over the same range is not acceptable; otherwise it is still
\* acceptable.
C21_EnterAddsConvertedPhrase ==
    [][EnterOnAcceptableMarking
        => /\ call'.returned
           /\ Len(call'.emitted) = 1
           /\ call'.emitted[1].state.type = "Inputting"
           /\ Includes(UserList(lm_', state_.reading), StoredMarkedText)
           /\ HasValue(unigramsForKey(lm_', state_.reading),
                       Converted(lm_', StoredMarkedText))
           /\ ~lm_.converter_ => Converted(lm_', StoredMarkedText)
                                     = state_.markedText
           /\ buildMarkingState(keyHandler_', lm_',
                                state_.markStartGridCursorIndex).acceptable
                  <=> Converted(lm_', StoredMarkedText) # state_.markedText]_vars

\* C21 witness: Enter added a marked text of two readings that has the
\* simplified character d: it is stored with D and looked up with d again.
C21_Witness ==
    /\ call.op = "handle"
    /\ call.key = KeyEnter
    /\ state_.type = "Inputting"
    /\ lm_.converter_
    /\ \E i \in 1..Len(state_.composingBuffer) : state_.composingBuffer[i] = "d"
    /\ \E key \in DOMAIN lm_.userPhrases_ :
           /\ Len(UserList(lm_, key)) = 1
           /\ Includes(UserList(lm_, key)[1], "D")
           /\ HasValue(unigramsForKey(lm_, key), state_.composingBuffer)

\* handle() in traditional mode composed a reading that has unigrams
TraditionalComposed ==
    /\ call'.op = "handle"
    /\ keyHandler_.traditionalMode_
    /\ ComposedReading
    /\ InsertedEmissions' # {}

\* C22: in traditional mode, after a syllable is composed with success,
\* handle() emits Inputting, with the syllable in the grid, and then
\* presents the candidates at the cursor: one candidate is emitted as
\* Committing(candidate) followed by Empty, several as ChoosingCandidate
\* over the buffer of the Inputting state; the reading and the grid are
\* reset before these states are emitted, and the call returns true.
C22_TraditionalPresentsCandidates ==
    [][TraditionalComposed
        => LET emitted == call'.emitted
               syllable == composedString(ReadingAfterKey(call'.key))
               values == ValuesOf(unigramsForKey(lm_, syllable))
           IN  /\ call'.returned
               /\ Len(emitted) \in {2, 3}
               /\ emitted[1].state.type = "Inputting"
               /\ emitted[1].width = Width + 1
               /\ \A k \in 2..Len(emitted) : emitted[k].width = 0
               /\ HandlerIsClear(keyHandler_')
               /\ IF Len(emitted) = 3
                  THEN /\ emitted[2].state.type = "Committing"
                       /\ emitted[3].state = Empty
                       /\ call'.commits = <<emitted[2].state.text>>
                  ELSE /\ emitted[2].state.type = "ChoosingCandidate"
                       /\ Len(emitted[2].state.candidates) > 1
                       /\ emitted[2].state.composingBuffer
                              = emitted[1].state.composingBuffer
                       /\ call'.commits = <<>>
               /\ Width = 0
                      => IF Len(values) = 1
                         THEN /\ Len(emitted) = 3
                              /\ emitted[2].state.text = values[1]
                         ELSE /\ Len(emitted) = 2
                              /\ emitted[2].state.candidates = values]_vars

\* C22 witness: in traditional mode a syllable with one candidate was
\* composed: the call emitted Inputting, Committing and Empty.
C22_Witness ==
    /\ call.op = "handle"
    /\ keyHandler_.traditionalMode_
    /\ Len(call.emitted) = 3
    /\ call.emitted[1].state.type = "Inputting"
    /\ call.emitted[1].inserted
    /\ call.emitted[2].state.type = "Committing"
    /\ call.emitted[3].state = Empty
    /\ state_ = Empty

\* Shift + Space is handled with an empty reading
ShiftSpaceOnEmptyReading ==
    /\ call'.op = "handle"
    /\ call'.key = KeyShiftSpace
    /\ isEmpty(keyHandler_.reading_)

\* a sequence with an element put in after its first n elements
InsertedAt(list, n, element) ==
    SubSeq(list, 1, n) \o <<element>> \o SubSeq(list, n + 1, Len(list))

\* C23: Shift + Space with an empty reading returns true.  With lower-case
\* letters going into the buffer, " " is inserted as a reading at the
\* cursor and one Inputting state is emitted; otherwise the handler emits
\* Committing(composing buffer) if the grid is not empty, then
\* Committing(" "), and is reset after them.
C23_ShiftSpaceInsertsOrCommits ==
    [][ShiftSpaceOnEmptyReading
        => LET emitted == call'.emitted
               texts == [k \in 1..Len(emitted) |-> emitted[k].state.text]
           IN  /\ call'.returned
               /\ call'.errors = 0
               /\ IF keyHandler_.putLowercaseLettersToComposingBuffer_
                  THEN /\ Len(emitted) = 1
                       /\ emitted[1].state.type = "Inputting"
                       /\ emitted[1].inserted
                       /\ keyHandler_'.builder_.readings_
                              = InsertedAt(keyHandler_.builder_.readings_,
                                           keyHandler_.builder_.cursorIndex_,
                                           <<" ">>)
                       /\ keyHandler_'.builder_.cursorIndex_
                              = keyHandler_.builder_.cursorIndex_ + 1
                       /\ Includes(emitted[1].state.composingBuffer, " ")
                       /\ call'.resets = 0
                  ELSE /\ \A k \in 1..Len(emitted) :
                              /\ emitted[k].state.type = "Committing"
                              /\ emitted[k].width = Width
                       /\ IF Width > 0
                          THEN /\ Len(emitted) = 2
                               /\ IsNotEmpty(state_)
                                      => texts[1] = state_.composingBuffer
                               /\ Len(texts[1]) > 0
                               /\ texts[2] = <<" ">>
                          ELSE texts = <<<<" ">>>>
                       /\ call'.commits = texts
                       /\ call'.resets = 1
                       /\ HandlerIsClear(keyHandler_')]_vars

\* C23 witness: Shift + Space committed a buffer of two readings and then
\* a space.
C23_Witness ==
    /\ call.op = "handle"
    /\ call.key = KeyShiftSpace
    /\ Len(call.emitted) = 2
    /\ call.emitted[1].state.type = "Committing"
    /\ call.emitted[1].width = 2
    /\ call.emitted[2].state = Committing(<<" ">>)
    /\ HandlerIsClear(keyHandler_)

\* Space or Down is handled with an empty reading on a NotEmpty state
SpaceOrDownOnNotEmpty ==
    /\ call'.op = "handle"
    /\ call'.key \in {KeySpace, KeyDown}
    /\ IsNotEmpty(state_)
    /\ isEmpty(keyHandler_.reading_)

\* C24: Space or Down with an empty reading on a NotEmpty state emits
\* exactly one ChoosingCandidate state, whose composingBuffer and
\* cursorIndex are those of the state passed in, and changes neither the
\* grid, the grid cursor nor the walked path.
C24_PanelKeepsBufferAndGrid ==
    [][SpaceOrDownOnNotEmpty
        => /\ call'.returned
           /\ call'.errors = 0
           /\ Len(call'.emitted) = 1
           /\ call'.emitted[1].state.type = "ChoosingCandidate"
           /\ call'.emitted[1].state.composingBuffer = state_.composingBuffer
           /\ call'.emitted[1].state.cursorIndex = state_.cursorIndex
           /\ state_' = call'.emitted[1].state
           /\ keyHandler_'.builder_ = keyHandler_.builder_
           /\ keyHandler_'.walkedNodes_ = keyHandler_.walkedNodes_
           /\ keyHandler_'.reading_ = keyHandler_.reading_]_vars

\* C24 witness: Down opened the panel over two readings from a state
\* whose cursor is inside the buffer.
C24_Witness ==
    /\ call.op = "handle"
    /\ call.key = KeyDown
    /\ state_.type = "ChoosingCandidate"
    /\ Len(state_.candidates) > 1
    /\ state_.cursorIndex = 1
    /\ Len(state_.composingBuffer) = 2
    /\ Width = 2

\* Esc is handled on a NotEmpty state
EscOnNotEmpty ==
    /\ call'.op = "handle"
    /\ call'.key = KeyEsc
    /\ IsNotEmpty(state_)

\* C25: Esc on a NotEmpty state emits one state and never Committing.
\* With Esc set to clear the whole buffer, the reading and the grid are
\* reset and EmptyIgnoringPrevious is emitted.  Otherwise the grid and its
\* cursor are left unchanged: a non-empty reading is cleared, and
\* EmptyIgnoringPrevious is emitted if the grid is empty, else Inputting
\* with the buffer less the reading; with an empty reading Inputting is
\* emitted again with the buffer of the state passed in.
C25_EscClearsReadingOrAll ==
    [][EscOnNotEmpty
        => LET emitted == call'.emitted
               reading == keyHandler_.reading_
           IN  /\ call'.returned
               /\ call'.errors = 0
               /\ call'.commits = <<>>
               /\ Len(emitted) = 1
               /\ emitted[1].state.type # "Committing"
               /\ IF keyHandler_.escKeyClearsEntireComposingBuffer_
                  THEN /\ HandlerIsClear(keyHandler_')
                       /\ emitted[1].state = EmptyIgnoringPrevious
                       /\ emitted[1].width = 0
                  ELSE /\ keyHandler_'.builder_ = keyHandler_.builder_
                       /\ keyHandler_'.walkedNodes_ = keyHandler_.walkedNodes_
                       /\ isEmpty(keyHandler_'.reading_)
                       /\ IF ~isEmpty(reading) /\ Width = 0
                          THEN emitted[1].state = EmptyIgnoringPrevious
                          ELSE /\ emitted[1].state.type = "Inputting"
                               /\ Len(emitted[1].state.composingBuffer)
                                      = Len(state_.composingBuffer)
                                        - Len(composedString(reading))
                               /\ isEmpty(reading)
                                      => emitted[1].state.composingBuffer
                                             = state_.composingBuffer]_vars

\* C25 witness: with Esc not set to clear the whole buffer, Esc was
\* handled over a grid of one reading: Inputting was emitted with the
\* grid as it was and no reading left.
C25_Witness ==
    /\ call.op = "handle"
    /\ call.key = KeyEsc
    /\ ~keyHandler_.escKeyClearsEntireComposingBuffer_
    /\ Len(call.emitted) = 1
    /\ call.emitted[1].state.type = "Inputting"
    /\ Width = 1
    /\ Len(state_.composingBuffer) = 1
    /\ isEmpty(keyHandler_.reading_)


\* Tab or Shift + Tab is handled
TabHandled ==
    /\ call'.op = "handle"
    /\ call'.key \in {KeyTab, KeyShiftTab}

\* the candidates Tab steps through: those of the nodes crossing or ending
\* at the candidate cursor, longest reading first
CandidatesAtCursor(kh) ==
    CandidatesOf(SortByKeyLength(
        nodesCrossingOrEndingAt(kh.builder_.grid_,
                                actualCandidateCursorIndex(kh)),
        <<>>))

\* the node of the walked path that covers the candidate cursor
NodeAtCursor(kh) ==
    CurrentNodeFrom(kh.walkedNodes_, actualCandidateCursorIndex(kh), 1, 0).node

\* the values that the nodes crossing or ending at the candidate cursor are
\* pinned to
PinnedValuesAtCursor(kh) ==
    LET anchors == nodesCrossingOrEndingAt(kh.builder_.grid_,
                                           actualCandidateCursorIndex(kh))
    IN  {currentValue(anchors[i].node) :
            i \in {j \in 1..Len(anchors) :
                      anchors[j].node.score = kSelectedCandidateScore}}

\* Tab is acted on: Inputting, no reading, some candidate at the cursor
TabAccepted ==
    /\ state_.type = "Inputting"
    /\ isEmpty(keyHandler_.reading_)
    /\ Len(CandidatesAtCursor(keyHandler_)) > 0

\* C26: Tab and Shift + Tab are consumed.  Outside the Inputting state,
\* with a reading in progress or with no candidate at the cursor, the key
\* signals one error, emits nothing and changes neither the handler nor
\* the state.  Otherwise it signals no error, emits one Inputting state and
\* leaves the nodes at the cursor pinned to one value, which is one of the
\* candidates, with the readings and the grid cursor where they were,
\* whatever the move-cursor-after-selection setting.
C26_TabPinsWithoutMovingCursor ==
    [][TabHandled
        => /\ call'.returned
           /\ IF TabAccepted
              THEN /\ call'.errors = 0
                   /\ Len(call'.emitted) = 1
                   /\ call'.emitted[1].state.type = "Inputting"
                   /\ state_' = call'.emitted[1].state
                   /\ keyHandler_'.builder_.cursorIndex_
                          = keyHandler_.builder_.cursorIndex_
                   /\ keyHandler_'.builder_.readings_
                          = keyHandler_.builder_.readings_
                   /\ keyHandler_'.moveCursorAfterSelection_
                          = keyHandler_.moveCursorAfterSelection_
                   /\ Cardinality(PinnedValuesAtCursor(keyHandler_')) = 1
                   /\ PinnedValuesAtCursor(keyHandler_')
                          \subseteq SetOf(CandidatesAtCursor(keyHandler_))
              ELSE /\ call'.errors = 1
                   /\ call'.emitted = <<>>
                   /\ keyHandler_' = keyHandler_
                   /\ state_' = state_]_vars

\* C26 witness: with the cursor set to move after a selection and standing
\* before the end of two readings, Tab pinned the node at the cursor and
\* the cursor is still there.
C26_Witness ==
    /\ call.op = "handle"
    /\ call.key = KeyTab
    /\ call.errors = 0
    /\ keyHandler_.moveCursorAfterSelection_
    /\ Width = 2
    /\ keyHandler_.builder_.cursorIndex_ = 1
    /\ NodeAtCursor(keyHandler_).score = kSelectedCandidateScore

\* the node at the cursor has been chosen by hand
ManuallyChosen(kh) == NodeAtCursor(kh).score >= kSelectedCandidateScore

\* the index, counted from 0, that Tab or Shift + Tab is to pick among n
\* candidates, the current value being at index position if it is there
ExpectedTabIndex(kh, candidates, shiftPressed) ==
    LET n == Len(candidates)
        current == currentValue(NodeAtCursor(kh))
        position == FirstIndex(candidates, current) - 1
    IN  IF ~ManuallyChosen(kh)
        THEN IF candidates[1] = current
             THEN IF shiftPressed THEN n - 1 ELSE 1 % n
             ELSE 0
        ELSE IF shiftPressed THEN (position + n - 1) % n
             ELSE (position + 1) % n

\* C27: on a node never chosen by hand, Tab picks candidate 1 and
\* Shift + Tab the last candidate when the first candidate is the current
\* value, and both pick candidate 0 otherwise; on a node chosen by hand,
\* whose value is among the candidates, Tab picks the candidate after it
\* and Shift + Tab the one before it, wrapping around.  The picked
\* candidate is the one value the nodes at the cursor end pinned to.
C27_TabRotatesCandidates ==
    [][TabHandled /\ TabAccepted
        => LET candidates == CandidatesAtCursor(keyHandler_)
               index == ExpectedTabIndex(keyHandler_, candidates,
                                         call'.key.shiftPressed)
           IN  /\ ManuallyChosen(keyHandler_)
                      => currentValue(NodeAtCursor(keyHandler_))
                             \in SetOf(candidates)
               /\ index \in 0..(Len(candidates) - 1)
               /\ PinnedValuesAtCursor(keyHandler_')
                      = {candidates[index + 1]}]_vars

\* C27 witness: Shift + Tab was handled on two readings and left the node
\* at the cursor pinned to a candidate that is neither the first nor the
\* last of the list.
C27_Witness ==
    /\ call.op = "handle"
    /\ call.key = KeyShiftTab
    /\ call.errors = 0
    /\ Width = 2
    /\ LET candidates == CandidatesAtCursor(keyHandler_)
       IN  /\ Len(candidates) > 2
           /\ ManuallyChosen(keyHandler_)
           /\ currentValue(NodeAtCursor(keyHandler_)) # candidates[1]
           /\ currentValue(NodeAtCursor(keyHandler_))
                  # candidates[Len(candidates)]


\* the grid cursor is a position of the grid
CursorInRange == keyHandler_.builder_.cursorIndex_ \in 0..Width

\* a cursor key is handled on an Inputting or Marking state with an empty
\* reading
CursorKeyOnEmptyReading ==
    /\ call'.op = "handle"
    /\ isCursorKeys(call'.key)
    /\ state_.type \in {"Inputting", "Marking"}
    /\ isEmpty(keyHandler_.reading_)

\* what a cursor key does to the cursor of a grid that it leaves alone
CursorKeyMoves ==
    LET cursor == keyHandler_.builder_.cursorIndex_
        after == keyHandler_'.builder_.cursorIndex_
        name == call'.key.name
    IN  /\ keyHandler_'.builder_.readings_ = keyHandler_.builder_.readings_
        /\ name = "LEFT" /\ cursor = 0
               => call'.errors = 1 /\ after = cursor
        /\ name = "LEFT" /\ cursor > 0
               => call'.errors = 0 /\ after = cursor - 1
        /\ name = "RIGHT" /\ cursor = Width
               => call'.errors = 1 /\ after = cursor
        /\ name = "RIGHT" /\ cursor < Width
               => call'.errors = 0 /\ after = cursor + 1
        /\ name = "HOME" => call'.errors = 0 /\ after = 0
        /\ name = "END" => call'.errors = 0 /\ after = Width

\* a cursor key is handled on an Inputting or Marking state
CursorKeyOnBuffer ==
    /\ call'.op = "handle"
    /\ isCursorKeys(call'.key)
    /\ state_.type \in {"Inputting", "Marking"}

\* a cursor key acting whatever the reading: C28 as stated
CursorKeyAsStated ==
    LET cursor == keyHandler_.builder_.cursorIndex_
        after == keyHandler_'.builder_.cursorIndex_
        name == call'.key.name
    IN  /\ name = "LEFT" /\ cursor = 0
               => call'.errors > 0 /\ after = cursor
        /\ name = "RIGHT" /\ cursor = Width
               => call'.errors > 0 /\ after = cursor
        /\ name = "HOME" => after = 0
        /\ name = "END" => after = Width

\* C28 as stated: the grid cursor is within [0, W] in every state; Left at
\* 0 and Right at W signal an error and leave the cursor unchanged, and
\* Home and End always set it to 0 and to W.
C28_CursorKeysAlwaysMove ==
    /\ []CursorInRange
    /\ [][CursorKeyOnBuffer => CursorKeyAsStated]_vars

\* C28 amended: the grid cursor is within [0, W] in every state, whatever keys,
\* candidate selections and evictions led to it.  A cursor key handled on
\* an Inputting or Marking state with an empty reading leaves the readings
\* alone; Left at 0 and Right at W signal one error and leave the cursor
\* where it is, Left and Right elsewhere move it by one without an error,
\* and Home and End set it to 0 and to W without an error wherever it is.
C28_CursorStaysInGrid ==
    /\ []CursorInRange
    /\ [][CursorKeyOnEmptyReading => CursorKeyMoves]_vars

\* C28 witness: Right was refused at the end of a buffer that is as wide
\* as the smallest buffer size allows.
C28_Witness ==
    /\ call.op = "handle"
    /\ call.key = KeyRight
    /\ call.errors = 1
    /\ Width = kMinComposingBufferSize
    /\ keyHandler_.builder_.cursorIndex_ = Width
    /\ state_.type = "Inputting"


\* the position a marking made by the key would start from
MarkAnchor ==
    IF state_.type = "Marking" THEN state_.markStartGridCursorIndex
    ELSE keyHandler_.builder_.cursorIndex_

\* C29: a cursor key handled on an Inputting or Marking state with an
\* empty reading emits one state.  It is Marking if and only if Shift is
\* held and the grid cursor after the move differs from the anchor, which
\* is the grid cursor before the key when the state passed in is Inputting
\* and its markStartGridCursorIndex when it is Marking; the Marking emitted
\* starts at the anchor.  Otherwise it is Inputting.  So a Marking that
\* follows a Marking under Shift + arrow has the same
\* markStartGridCursorIndex, and one that returns to the anchor gives
\* Inputting with the cursor on the anchor.
C29_ShiftMarksFromAnchor ==
    [][CursorKeyOnEmptyReading
        => LET after == keyHandler_'.builder_.cursorIndex_
               marks == call'.key.shiftPressed /\ after # MarkAnchor
           IN  /\ call'.returned
               /\ Len(call'.emitted) = 1
               /\ state_' = call'.emitted[1].state
               /\ state_'.type = (IF marks THEN "Marking" ELSE "Inputting")
               /\ marks => state_'.markStartGridCursorIndex = MarkAnchor
               /\ call'.key.shiftPressed /\ ~marks
                      => keyHandler_'.builder_.cursorIndex_ = MarkAnchor]_vars

\* C29 witness: Shift + Right was handled and the grid is marked from an
\* anchor that is two readings behind the end and one reading behind the
\* cursor.
C29_Witness ==
    /\ call.op = "handle"
    /\ call.key = KeyShiftRight
    /\ call.errors = 0
    /\ state_.type = "Marking"
    /\ Width = 3
    /\ state_.markStartGridCursorIndex = 1
    /\ keyHandler_.builder_.cursorIndex_ = 2


\* Backspace or Delete is handled on a NotEmpty state
DeleteKeyOnNotEmpty ==
    /\ call'.op = "handle"
    /\ isDeleteKeys(call'.key)
    /\ IsNotEmpty(state_)

\* a list without its n-th element
RemovedAt(list, n) == SubSeq(list, 1, n - 1) \o SubSeq(list, n + 1, Len(list))

RECURSIVE SpannedBy(_)
\* the readings a walked path spans
SpannedBy(walked) ==
    IF Len(walked) = 0 THEN 0
    ELSE walked[1].spanningLength + SpannedBy(Tail(walked))

\* what Backspace or Delete does to the reading and the grid
DeleteKeyEffect ==
    LET reading == keyHandler_.reading_
        builder == keyHandler_.builder_
        cursor == builder.cursorIndex_
        backspaceKey == call'.key.name = "BACKSPACE"
        after == keyHandler_'
    IN  IF hasToneMarkerOnly(reading)
        THEN /\ call'.errors = 0
             /\ isEmpty(after.reading_)
             /\ after.builder_ = builder
        ELSE IF isEmpty(reading)
        THEN IF backspaceKey /\ cursor > 0
             THEN /\ call'.errors = 0
                  /\ after.builder_.readings_
                         = RemovedAt(builder.readings_, cursor)
                  /\ after.builder_.cursorIndex_ = cursor - 1
                  /\ SpannedBy(after.walkedNodes_) = Width - 1
                  /\ ~after.gridChanged
             ELSE IF ~backspaceKey /\ cursor < Width
             THEN /\ call'.errors = 0
                  /\ after.builder_.readings_
                         = RemovedAt(builder.readings_, cursor + 1)
                  /\ after.builder_.cursorIndex_ = cursor
                  /\ SpannedBy(after.walkedNodes_) = Width - 1
                  /\ ~after.gridChanged
             ELSE /\ call'.errors = 1
                  /\ after.builder_ = builder
                  /\ after.walkedNodes_ = keyHandler_.walkedNodes_
        ELSE /\ after.builder_ = builder
             /\ IF backspaceKey
                THEN /\ call'.errors = 0
                     /\ composedString(after.reading_)
                            = SubSeq(composedString(reading), 1,
                                     Len(composedString(reading)) - 1)
                ELSE /\ call'.errors = 1
                     /\ after.reading_ = reading

\* C30: Backspace or Delete on a NotEmpty state is consumed and emits one
\* state.  A reading of a tone marker only is cleared.  With an empty
\* reading, Backspace behind position 0 removes the reading before the
\* cursor and Delete before position W the reading after it, and the grid
\* is walked again over the remaining readings; otherwise an error is
\* signalled and the grid is left as it is.  With any other reading,
\* Backspace removes its last component and Delete signals an error, and
\* the grid is left as it is.  The state emitted is EmptyIgnoringPrevious
\* exactly when the reading and the grid are both empty afterwards, and
\* Inputting otherwise.
C30_DeleteKeysRemoveOneUnit ==
    [][DeleteKeyOnNotEmpty
        => /\ call'.returned
           /\ Len(call'.emitted) = 1
           /\ DeleteKeyEffect
           /\ call'.emitted[1].state.type
                  = (IF isEmpty(keyHandler_'.reading_) /\ Width' = 0
                     THEN "EmptyIgnoringPrevious" ELSE "Inputting")]_vars




\* Enter is handled on a NotEmpty state
EnterOnNotEmpty ==
    /\ call'.op = "handle"
    /\ call'.key = KeyEnter
    /\ IsNotEmpty(state_)

\* Enter on a Marking state: the phrase is added or the marking refused
EnterOnMarking ==
    IF state_.acceptable
    THEN /\ call'.errors = 0
         /\ call'.emitted[1].state.type = "Inputting"
         /\ Includes(UserList(lm_', state_.reading), StoredMarkedText)
         /\ keyHandler_' = keyHandler_
    ELSE /\ call'.errors = 1
         /\ call'.emitted[1].state.type = "Marking"
         /\ call'.emitted[1].state.markStartGridCursorIndex
                = state_.markStartGridCursorIndex
         /\ keyHandler_' = keyHandler_
         /\ lm_' = lm_

\* Enter commits the composing buffer and resets the handler
EnterCommits ==
    /\ call'.errors = 0
    /\ call'.emitted[1].state = Committing(state_.composingBuffer)
    /\ call'.commits = <<state_.composingBuffer>>
    /\ HandlerIsClear(keyHandler_')
    /\ lm_' = lm_

\* C31: Enter on a NotEmpty state is consumed and emits one state.  On an
\* acceptable Marking it adds the marked phrase to the user phrases and
\* emits Inputting without touching the grid; on an unacceptable Marking
\* it signals an error and emits Marking again with the same mark start;
\* on any other NotEmpty state it emits Committing with the composing
\* buffer and resets the reading and the grid.
C31_EnterCommitsAnyOtherState ==
    [][EnterOnNotEmpty
        => /\ call'.returned
           /\ Len(call'.emitted) = 1
           /\ IF state_.type = "Marking" THEN EnterOnMarking
              ELSE EnterCommits]_vars

\* C31 amended: as C31, but any other NotEmpty state commits only when the
\* reading is empty; with a reading in progress Enter signals an error,
\* emits Inputting with the composing buffer it was given, commits
\* nothing and leaves the reading and the grid as they are.
C31_EnterCommitsOnEmptyReading ==
    [][EnterOnNotEmpty
        => /\ call'.returned
           /\ Len(call'.emitted) = 1
           /\ IF state_.type = "Marking" THEN EnterOnMarking
              ELSE IF isEmpty(keyHandler_.reading_) THEN EnterCommits
              ELSE /\ call'.errors = 1
                   /\ call'.emitted[1].state.type = "Inputting"
                   /\ call'.emitted[1].state.composingBuffer
                          = state_.composingBuffer
                   /\ call'.commits = <<>>
                   /\ keyHandler_' = keyHandler_
                   /\ lm_' = lm_]_vars

\* C31 witness: Enter was refused over a reading in progress behind a
\* composed reading, and nothing was committed.
C31_Witness ==
    /\ call.op = "handle"
    /\ call.key = KeyEnter
    /\ call.errors = 1
    /\ call.commits = <<>>
    /\ state_.type = "Inputting"
    /\ ~isEmpty(keyHandler_.reading_)
    /\ Width = 1


\* the key that brings up the punctuation list is handled
BacktickHandled ==
    /\ call'.op = "handle"
    /\ call'.key = KeyGrave

\* the language model knows the key of the punctuation list
PunctuationListKnown == hasUnigramsForKey(lm_, kPunctuationListUnigramKey)

\* the key is inserted as a reading at the cursor, the grid is walked over
\* all its readings, and Inputting and then ChoosingCandidate are emitted
\* with the same composing buffer
PunctuationListOpened ==
    LET builder == keyHandler_.builder_
        cursor == builder.cursorIndex_
        emitted == call'.emitted
    IN  /\ call'.returned
        /\ call'.errors = 0
        /\ keyHandler_'.builder_.readings_
               = InsertedAt(builder.readings_, cursor,
                            kPunctuationListUnigramKey)
        /\ keyHandler_'.builder_.cursorIndex_ = cursor + 1
        /\ SpannedBy(keyHandler_'.walkedNodes_) = Width + 1
        /\ ~keyHandler_'.gridChanged
        /\ Len(emitted) = 2
        /\ emitted[1].state.type = "Inputting"
        /\ emitted[2].state.type = "ChoosingCandidate"
        /\ emitted[2].state.composingBuffer = emitted[1].state.composingBuffer
        /\ emitted[2].state.cursorIndex = emitted[1].state.cursorIndex
        /\ Len(emitted[2].state.candidates) > 0
        /\ state_' = emitted[2].state

\* C32: if the language model knows the key of the punctuation list and
\* the reading is empty, the backtick inserts the key as a reading, walks
\* the grid again and emits Inputting followed by ChoosingCandidate with
\* the same composing buffer; in every other case, the key unknown or a
\* reading in progress, it signals an error.
C32_BacktickOpensListOrErrors ==
    [][BacktickHandled
        => IF PunctuationListKnown /\ isEmpty(keyHandler_.reading_)
           THEN PunctuationListOpened
           ELSE call'.errors = 1]_vars

\* C32 amended: as C32 when the key is known and the reading is empty.
\* When the key is known and a reading is in progress, the backtick is
\* consumed, signals an error and emits nothing.  When the key is unknown
\* and no punctuation is known for the backtick either, it is an unhandled
\* key: on a NotEmpty state it is consumed, signals an error and emits
\* Inputting; on an Empty state it is not consumed, signals no error and
\* emits nothing.  In all these cases the handler is left as it is.
C32_BacktickOpensListOrIsUnhandled ==
    [][BacktickHandled
        => IF PunctuationListKnown /\ isEmpty(keyHandler_.reading_)
           THEN PunctuationListOpened
           ELSE /\ keyHandler_' = keyHandler_
                /\ IF PunctuationListKnown
                   THEN /\ call'.returned
                        /\ call'.errors = 1
                        /\ call'.emitted = <<>>
                   ELSE IF IsNotEmpty(state_)
                   THEN /\ call'.returned
                        /\ call'.errors = 1
                        /\ Len(call'.emitted) = 1
                        /\ call'.emitted[1].state.type = "Inputting"
                   ELSE /\ ~call'.returned
                        /\ call'.errors = 0
                        /\ call'.emitted = <<>>]_vars

\* C32 witness: the backtick was handled on an Empty state by a handler
\* whose language model has no punctuation list, and was not consumed.
C32_Witness ==
    /\ call.op = "handle"
    /\ call.key = KeyGrave
    /\ ~PunctuationListKnown
    /\ ~call.returned
    /\ call.errors = 0
    /\ ~IsNotEmpty(state_)


\* a key that is neither a key of the reading nor a key with a case of
\* its own in handle() is handled outside traditional mode
OtherKeyHandled ==
    /\ call'.op = "handle"
    /\ call'.key \in OtherAsciiKeys
    /\ ~keyHandler_.traditionalMode_

\* the punctuation key handle() finds first for a character: that of the
\* layout, then that of any layout; <<>> when the language model has
\* neither
FirstKnownPunctuation(ch) ==
    LET layout == kPunctuationKeyPrefix
                  \o GetKeyboardLayoutName(
                         keyHandler_.reading_.keyboardLayout)
                  \o <<"_">> \o ch
        generic == kPunctuationKeyPrefix \o ch
    IN  IF hasUnigramsForKey(lm_, layout) THEN layout
        ELSE IF hasUnigramsForKey(lm_, generic) THEN generic
        ELSE <<>>

\* the key is inserted as a reading at the cursor and Inputting is emitted
InsertedAsReading(unigramKey) ==
    /\ call'.returned
    /\ call'.errors = 0
    /\ keyHandler_'.builder_.readings_
           = InsertedAt(keyHandler_.builder_.readings_,
                        keyHandler_.builder_.cursorIndex_, unigramKey)
    /\ keyHandler_'.builder_.cursorIndex_
           = keyHandler_.builder_.cursorIndex_ + 1
    /\ keyHandler_'.reading_ = keyHandler_.reading_
    /\ Len(call'.emitted) = 1
    /\ call'.emitted[1].state.type = "Inputting"

\* the key is refused because a reading is in progress
RefusedOverReading ==
    /\ call'.returned
    /\ call'.errors = 1
    /\ keyHandler_' = keyHandler_
    /\ Len(call'.emitted) = 1
    /\ call'.emitted[1].state.type = "Inputting"
    /\ call'.emitted[1].state.composingBuffer = state_.composingBuffer

\* the composing buffer and then the character are committed, and the
\* handler is reset
CommittedWithLetter(ch) ==
    /\ call'.returned
    /\ call'.errors = 0
    /\ Len(call'.emitted) = 2
    /\ call'.emitted[1].state = Committing(state_.composingBuffer)
    /\ call'.emitted[2].state = Committing(ch)
    /\ call'.commits = <<state_.composingBuffer, ch>>
    /\ HandlerIsClear(keyHandler_')

\* the key is not consumed and nothing happens
NotConsumed ==
    /\ ~call'.returned
    /\ call'.errors = 0
    /\ call'.emitted = <<>>
    /\ keyHandler_' = keyHandler_

\* an upper-case letter with no punctuation of its own, upper-case letters
\* being committed
LetterCommitted(ch) ==
    IF IsNotEmpty(state_) THEN CommittedWithLetter(ch) ELSE NotConsumed

\* C33: for any other ASCII key the punctuation key of the layout and then
\* the punctuation key of any layout are tried, and the first one the
\* language model knows is inserted as a reading; failing both, an
\* upper-case letter is inserted as _letter_<ch> when lower-case letters
\* go into the buffer, and otherwise commits the composing buffer and then
\* the letter and resets on a NotEmpty state, and is not consumed on an
\* Empty state.
C33_OtherKeyInsertsFirstKnown ==
    [][OtherKeyHandled
        => LET ch == call'.key.ascii
               punctuation == FirstKnownPunctuation(ch)
           IN  IF punctuation # <<>> THEN InsertedAsReading(punctuation)
               ELSE IF keyHandler_.putLowercaseLettersToComposingBuffer_
               THEN InsertedAsReading(kLetterPrefix \o ch)
               ELSE LetterCommitted(ch)]_vars

\* C33 amended: as C33, but a key the language model knows is inserted
\* only when the reading is empty, and with a reading in progress it
\* signals an error, emits Inputting and leaves the handler as it is; and
\* an upper-case letter whose _letter_<ch> the language model does not
\* know is consumed without an error, a state or a change when lower-case
\* letters go into the buffer.
C33_OtherKeyInsertsOnEmptyReading ==
    [][OtherKeyHandled
        => LET ch == call'.key.ascii
               punctuation == FirstKnownPunctuation(ch)
               letter == kLetterPrefix \o ch
               known == IF punctuation # <<>> THEN punctuation
                        ELSE IF hasUnigramsForKey(lm_, letter) THEN letter
                        ELSE <<>>
           IN  IF punctuation = <<>>
                  /\ ~keyHandler_.putLowercaseLettersToComposingBuffer_
               THEN LetterCommitted(ch)
               ELSE IF known = <<>>
               THEN /\ call'.returned
                    /\ call'.errors = 0
                    /\ call'.emitted = <<>>
                    /\ keyHandler_' = keyHandler_
               ELSE IF isEmpty(keyHandler_.reading_)
               THEN InsertedAsReading(known)
               ELSE RefusedOverReading]_vars

\* C33 witness: the comma was inserted as the punctuation of the layout
\* in use, which the language model has next to the comma of any layout.
C33_Witness ==
    /\ call.op = "handle"
    /\ call.key = KeyComma
    /\ call.errors = 0
    /\ hasUnigramsForKey(lm_, kPunctuationKeyPrefix \o <<",">>)
    /\ Width = 2
    /\ keyHandler_.builder_.cursorIndex_ = 1
    /\ keyHandler_.builder_.readings_[1]
           = kPunctuationKeyPrefix \o GetKeyboardLayoutName(StandardLayout)
             \o <<"_", ",">>

RECURSIVE LeftEdge(_, _)
\* the location at which the i-th walked anchor starts
LeftEdge(walked, i) ==
    IF i <= 1 THEN 0
    ELSE LeftEdge(walked, i - 1) + walked[i - 1].spanningLength

\* the last call was handle() and composed a syllable into the grid
SyllableComposed ==
    /\ HandleInserted
    /\ keyHandler_.builder_.cursorIndex_ >= 1
    /\ ~StartsWith(keyHandler_.builder_.readings_[
                       keyHandler_.builder_.cursorIndex_], <<"_">>)

\* the handler of the state before, once the syllable the step composed
\* is inserted, the head evicted and the grid walked (handle, lines
\* 230-233): what fixNodesIfRequired starts from
WalkedBeforeFix ==
    popEvictedTextAndWalk(
        WithBuilder(keyHandler_,
            insertReadingAtCursor(keyHandler_.builder_, lm_,
                keyHandler_'.builder_.readings_[
                    keyHandler_'.builder_.cursorIndex_])),
        lm_)[1]

\* the anchor starts more than kMaxComposingBufferNeedsToWalkSize
\* positions before the end of a grid of this width
Settled(edge, width) ==
    /\ width > kMaxComposingBufferNeedsToWalkSize
    /\ edge < width - kMaxComposingBufferNeedsToWalkSize

\* what the pass over the walk has done to the i-th anchor of the walk
AnchorFixed(before, i, grid) ==
    LET anchor == before.walkedNodes_[i]
        edge == LeftEdge(before.walkedNodes_, i)
        node == NodeAt(grid, edge, anchor.spanningLength)
    IN  IF Settled(edge, Len(grid))
        THEN /\ node.score = kSelectedCandidateScore
             /\ currentValue(node) = currentValue(anchor.node)
        ELSE /\ node = anchor.node
             /\ node.score < kSelectedCandidateScore

\* C34: after a syllable was composed, every anchor of the walk that starts
\* more than kMaxComposingBufferNeedsToWalkSize positions before the end of
\* the grid is pinned to the value it had in the walk; every other anchor,
\* and every anchor of a grid no wider than the limit, is left as the walk
\* found it and unpinned.
C34_SettledAnchorsPinned ==
    [][SyllableComposed'
        => \E before \in {WalkedBeforeFix} :
               \A i \in 1..Len(before.walkedNodes_) :
                   AnchorFixed(before, i, keyHandler_'.builder_.grid_)]_vars

\* C34 witness: a syllable was composed into a grid one wider than the
\* limit: the first anchor of the walk is pinned and the second, a node
\* of two readings, is not.
C34_Witness ==
    /\ SyllableComposed
    /\ Width = kMaxComposingBufferNeedsToWalkSize + 1
    /\ keyHandler_.walkedNodes_[1].node.score = kSelectedCandidateScore
    /\ keyHandler_.walkedNodes_[2].spanningLength = 2
    /\ keyHandler_.walkedNodes_[2].node.score < kSelectedCandidateScore

\* the walked anchors the location lies inside, or at the right edge of
AnchorsHolding(walked, location) ==
    {i \in 1..Len(walked) :
        /\ LeftEdge(walked, i) < location
        /\ location <= LeftEdge(walked, i) + walked[i].spanningLength}

\* the candidate cursor index expected for a cursor in a grid
ExpectedCandidateIndex(cursor, width, afterCursor) ==
    IF afterCursor /\ cursor < width THEN cursor + 1
    ELSE IF ~afterCursor /\ cursor = 0 THEN 1
    ELSE cursor

\* C35: with a grid of W > 0 readings the cursor is within 0..W and the
\* actual candidate cursor index is within 1..W: one more than the cursor
\* when phrases are selected after the cursor and the cursor is before the
\* end, 1 when they are selected before the cursor and the cursor is at 0,
\* and the cursor otherwise; it lies inside or at the right edge of a
\* walked node. With an empty grid it is 0.
C35_CandidateIndexInWalkedNode ==
    LET cursor == keyHandler_.builder_.cursorIndex_
        index == actualCandidateCursorIndex(keyHandler_)
    IN  IF Width = 0 THEN index = 0
        ELSE /\ cursor \in 0..Width
             /\ index \in 1..Width
             /\ index = ExpectedCandidateIndex(cursor, Width,
                            keyHandler_.selectPhraseAfterCursorAsCandidate_)
             /\ AnchorsHolding(keyHandler_.walkedNodes_, index) # {}

\* C35 witness: the panel was opened with phrases selected after the
\* cursor, and the index, one behind the cursor, lies strictly inside a
\* walked node of two readings.
C35_Witness ==
    /\ call.op = "handle"
    /\ call.key = KeyDown
    /\ state_.type = "ChoosingCandidate"
    /\ keyHandler_.selectPhraseAfterCursorAsCandidate_
    /\ keyHandler_.builder_.cursorIndex_ < Width
    /\ \E i \in AnchorsHolding(keyHandler_.walkedNodes_,
                     actualCandidateCursorIndex(keyHandler_)) :
           actualCandidateCursorIndex(keyHandler_)
               < LeftEdge(keyHandler_.walkedNodes_, i)
                     + keyHandler_.walkedNodes_[i].spanningLength

\* a candidate of the panel is selected outside traditional mode
CandidatePinned ==
    /\ call'.op = "candidateSelected"
    /\ ~keyHandler_.traditionalMode_

\* the nodes of the grid crossing or ending at the location that are pinned
PinnedNodesAt(grid, location) ==
    LET anchors == nodesCrossingOrEndingAt(grid, location)
    IN  {anchors[j].node :
            j \in {k \in 1..Len(anchors) :
                      anchors[k].node.score = kSelectedCandidateScore}}

\* the override model has taken in an observation of the value
Observed(value) ==
    /\ keyHandler_'.userOverrideModel_ # keyHandler_.userOverrideModel_
    /\ Len(keyHandler_'.userOverrideModel_) > 0
    /\ keyHandler_'.userOverrideModel_[1].value = value

\* C36: when a candidate is pinned, some node at the candidate cursor is
\* pinned to it, and the override model records an observation of it if
\* and only if the score the node has for it is above
\* kNoOverrideThreshold; a selection at or below the threshold leaves the
\* override model as it was.
C36_ObservedIffAboveThreshold ==
    [][CandidatePinned
        => LET pinned == PinnedNodesAt(keyHandler_'.builder_.grid_,
                             actualCandidateCursorIndex(keyHandler_))
           IN  /\ pinned # {}
               /\ \A node \in pinned :
                      LET score == scoreForCandidate(node, currentValue(node))
                      IN  /\ score.defined
                          /\ Observed(currentValue(node))
                                 <=> score.score > kNoOverrideThreshold
                          /\ score.score <= kNoOverrideThreshold
                                 => keyHandler_'.userOverrideModel_
                                        = keyHandler_.userOverrideModel_]_vars

\* C36 witness: a candidate whose score is the threshold itself was pinned
\* in a grid of two readings, and the override model has observed nothing.
C36_Witness ==
    /\ call.op = "candidateSelected"
    /\ Width = 2
    /\ keyHandler_.userOverrideModel_ = <<>>
    /\ \E i \in 1..Width :
           LET node == NodeAt(keyHandler_.builder_.grid_, i - 1, 1)
           IN  /\ node.score = kSelectedCandidateScore
               /\ scoreForCandidate(node, currentValue(node)).score
                      = kNoOverrideThreshold

\* the ends of the walked nodes at or behind the location
BoundariesFrom(walked, location) ==
    {LeftEdge(walked, i) + walked[i].spanningLength : i \in 1..Len(walked)}
        \cap location..SpannedBy(walked)

\* the least of a set of numbers that is not empty
Least(numbers) == CHOOSE n \in numbers : \A m \in numbers : n <= m

\* the candidate the panel hands to candidateSelected
ChosenCandidate ==
    IF SelectedBy(call'.key) # Undefined THEN SelectedBy(call'.key)
    ELSE selectedCandidate(candidateController_)

\* C37: after a candidate is selected outside traditional mode with the
\* cursor set to move after a selection, the grid cursor is within 0..W at
\* the end of the walked node that has the chosen candidate and lies on
\* the candidate cursor index, which is the first end of a walked node at
\* or behind that index; with the setting off the grid cursor is where it
\* was.
C37_CursorBehindChosenNode ==
    [][CandidatePinned
        => LET index == actualCandidateCursorIndex(keyHandler_)
               cursor == keyHandler_'.builder_.cursorIndex_
               walked == keyHandler_'.walkedNodes_
               ends == BoundariesFrom(walked, index)
           IN  /\ cursor \in 0..Width'
               /\ IF keyHandler_.moveCursorAfterSelection_
                  THEN /\ ends # {}
                       /\ cursor = Least(ends)
                       /\ \E i \in 1..Len(walked) :
                              /\ currentValue(walked[i].node) = ChosenCandidate
                              /\ LeftEdge(walked, i) < index
                              /\ cursor = LeftEdge(walked, i)
                                              + walked[i].spanningLength
                  ELSE cursor = keyHandler_.builder_.cursorIndex_]_vars

\* the step inserts a reading and takes readings from the head of the grid
HeadRemoved == HandleInserted' /\ Width' <= Width

\* the values the language model has for the readings as one phrase
ValuesOfReadings(readings) ==
    SetOf(ValuesOf(unigramsForKey(lm_, Join(readings, <<"-">>))))

\* C38: whenever a call of handle() that inserts a reading takes readings
\* from the head of the grid, the Inputting state it emits carries as
\* evictedText a value of exactly the readings taken, wherever the cursor
\* was when the reading was inserted.
C38_EvictedTextOfRemovedReadings ==
    [][HeadRemoved
        => LET removed == SubSeq(ReadingsWithInserted, 1, Width + 1 - Width')
           IN  /\ keyHandler_'.builder_.readings_
                      = SubSeq(ReadingsWithInserted,
                               Len(removed) + 1, Width + 1)
               /\ \A i \in InsertedEmissions' :
                      /\ call'.emitted[i].state.type = "Inputting"
                      /\ call'.emitted[i].state.evictedText
                             \in ValuesOfReadings(removed)]_vars

\* handle() composes the reading the key leaves, and the language model has
\* no unigrams for it
ComposesUnknownSyllable ==
    LET reading == ReadingAfterKey(call'.key)
    IN  /\ call'.op = "handle"
        /\ \/ /\ isValidKey(call'.key.ascii)
              /\ hasToneMarker(reading)
              /\ ~hasToneMarkerOnly(reading)
           \/ /\ ~isValidKey(call'.key.ascii)
              /\ call'.key.name = "SPACE"
              /\ ~isEmpty(reading)
        /\ ~hasUnigramsForKey(lm_, composedString(reading))

\* C39: when the syllable handle() composes has no unigrams, one error is
\* signalled, the reading is cleared, the readings, the cursor and the
\* nodes of the grid and the walked path are unchanged, and one state is
\* emitted: EmptyIgnoringPrevious if the grid is empty, and otherwise
\* Inputting with the composing buffer less the reading.
C39_UnknownSyllableRejected ==
    [][ComposesUnknownSyllable
        => /\ call'.returned
           /\ call'.errors = 1
           /\ isEmpty(keyHandler_'.reading_)
           /\ keyHandler_'.builder_ = keyHandler_.builder_
           /\ keyHandler_'.walkedNodes_ = keyHandler_.walkedNodes_
           /\ Len(call'.emitted) = 1
           /\ state_' = call'.emitted[1].state
           /\ IF Width = 0
              THEN call'.emitted[1].state = EmptyIgnoringPrevious
              ELSE /\ call'.emitted[1].state.type = "Inputting"
                   /\ call'.emitted[1].state
                          = buildInputtingState(keyHandler_')
                   /\ Len(call'.emitted[1].state.composingBuffer)
                          = Len(state_.composingBuffer)
                            - Len(composedString(keyHandler_.reading_))]_vars

\* C39 witness: over the dictionary that lacks the toned syllable, the
\* tone key completed that syllable behind a reading of the grid: an error
\* was signalled and Inputting emitted with the grid as it was.
C39_Witness ==
    /\ call.op = "handle"
    /\ call.key = Key3
    /\ call.errors = 1
    /\ ~hasUnigramsForKey(lm_, <<"I", "v">>)
    /\ isEmpty(keyHandler_.reading_)
    /\ Width = 1
    /\ Len(call.emitted) = 1
    /\ call.emitted[1].state.type = "Inputting"
    /\ Len(call.emitted[1].state.composingBuffer) = 1

\* C40: in traditional mode readings never accumulate: whenever the state
\* of the controller is not ChoosingCandidate, the grid is empty.
C40_TraditionalGridEmpty ==
    (keyHandler_.traditionalMode_ /\ state_.type # "ChoosingCandidate")
        => Width = 0

=============================================================================
